---------------------------- MODULE Spec2Model ----------------------------
(***************************************************************************)
(* markproof: the trust chain from the build (manifest.ts, builder.ts,     *)
(* bookmarklet.ts) to the loader that runs in the browser (bootstrap.js).  *)
(*                                                                         *)
(* JavaScript strings are TLA+ strings, so a canonical form or a           *)
(* manifest.json is the very text the code produces and "byte for byte     *)
(* equal" is string equality.  Resource contents are sequences of bytes    *)
(* (0..255) on the wire and sequences of code points once decoded.         *)
(* SHA-256 and Ed25519 are ideal: a digest names its input, a signature    *)
(* names the signing key and the signed text, and nothing else verifies.   *)
(***************************************************************************)
EXTENDS Integers, Sequences, FiniteSets, TLC

(***************************************************************************)
(* Strings: code units and the order Array.prototype.sort() uses           *)
(***************************************************************************)

CharAt(s, i) == SubSeq(s, i, i)

\* String.prototype.charCodeAt for the characters the model uses: the line
\* feed and the printable ASCII characters in code-unit order, U+0020..U+005F
\* and U+0061..U+007E (U+0060 is left out: no string of the model holds it).
CharCode(c) ==
  LET low == " !\"#$%&'()*+,-./0123456789:;<=>?@ABCDEFGHIJKLMNOPQRSTUVWXYZ[\\]^_"
      high == "abcdefghijklmnopqrstuvwxyz{|}~"
  IN IF c = "\n" THEN 10
     ELSE IF \E i \in 1..Len(low) : CharAt(low, i) = c
     THEN 31 + (CHOOSE i \in 1..Len(low) : CharAt(low, i) = c)
     ELSE 96 + (CHOOSE i \in 1..Len(high) : CharAt(high, i) = c)

RECURSIVE StrLessFrom(_, _, _)
StrLessFrom(a, b, i) ==
  IF i > Len(b) THEN FALSE
  ELSE IF i > Len(a) THEN TRUE
  ELSE IF CharAt(a, i) = CharAt(b, i) THEN StrLessFrom(a, b, i + 1)
  ELSE CharCode(CharAt(a, i)) < CharCode(CharAt(b, i))

\* a < b in JavaScript: lexicographic by UTF-16 code unit.
StrLess(a, b) == StrLessFrom(a, b, 1)

RECURSIVE InsertSorted(_, _)
InsertSorted(sorted, s) ==
  IF sorted = <<>> THEN <<s>>
  ELSE IF StrLess(s, Head(sorted)) THEN <<s>> \o sorted
  ELSE <<Head(sorted)>> \o InsertSorted(Tail(sorted), s)

RECURSIVE SortStrings(_)
\* Array.prototype.sort() without a comparator, on an array of strings.
SortStrings(keys) ==
  IF keys = <<>> THEN <<>>
  ELSE InsertSorted(SortStrings(SubSeq(keys, 1, Len(keys) - 1)), keys[Len(keys)])

StartsWith(s, prefix) ==
  Len(s) >= Len(prefix) /\ SubSeq(s, 1, Len(prefix)) = prefix

EndsWith(s, suffix) ==
  Len(s) >= Len(suffix) /\ SubSeq(s, Len(s) - Len(suffix) + 1, Len(s)) = suffix

(***************************************************************************)
(* JavaScript values                                                       *)
(*                                                                         *)
(* A value is a record [k, s, n, m]: its type tag, its string, its number  *)
(* and, for an object or an array, its own properties in insertion order.  *)
(***************************************************************************)

JUndefined == [k |-> "undefined", s |-> "", n |-> 0, m |-> <<>>]
JNull == [k |-> "null", s |-> "", n |-> 0, m |-> <<>>]
JString(str) == [k |-> "string", s |-> str, n |-> 0, m |-> <<>>]
JNumber(num) == [k |-> "number", s |-> "", n |-> num, m |-> <<>>]
JObject(members) == [k |-> "object", s |-> "", n |-> 0, m |-> members]
JArray(items) == [k |-> "array", s |-> "", n |-> 0, m |-> items]
Member(key, val) == [key |-> key, val |-> val]

\* ToBoolean: what `!x` and `a && b` test.
Truthy(v) ==
  CASE v.k = "undefined" -> FALSE
    [] v.k = "null" -> FALSE
    [] v.k = "string" -> v.s /= ""
    [] v.k = "number" -> v.n /= 0
    [] OTHER -> TRUE

HasOwn(obj, key) == \E i \in 1..Len(obj.m) : obj.m[i].key = key

OwnIndex(obj, key) == CHOOSE i \in 1..Len(obj.m) : obj.m[i].key = key

\* obj[key] for an own property; a missing property reads as undefined.
\* Reading a property of undefined or null throws: the callers test for that.
ObjGet(obj, key) ==
  IF obj.k \in {"object", "array"} /\ HasOwn(obj, key)
  THEN obj.m[OwnIndex(obj, key)].val
  ELSE JUndefined

\* Object.keys(obj): own enumerable string keys in insertion order (the model
\* has no integer-like keys, which would come first).
ObjectKeys(obj) == [i \in 1..Len(obj.m) |-> obj.m[i].key]

\* CreateDataProperty: how JSON.parse and object literals add a property.
ObjDefine(obj, key, val) ==
  IF HasOwn(obj, key)
  THEN [obj EXCEPT !.m[OwnIndex(obj, key)].val = val]
  ELSE [obj EXCEPT !.m = Append(@, Member(key, val))]

\* obj[key] = val on an ordinary object created by {}: the assignment goes
\* through [[Set]], and for the key "__proto__" that is the setter inherited
\* from Object.prototype, which changes the prototype (or does nothing for a
\* primitive) and adds no own property.
ObjSet(obj, key, val) ==
  IF key = "__proto__" THEN obj ELSE ObjDefine(obj, key, val)

(***************************************************************************)
(* JSON.stringify and JSON.parse                                           *)
(***************************************************************************)

\* The characters lo..hi of s, each '"' and '\' preceded by a '\' (split in
\* halves, so that long strings need no deep recursion).
RECURSIVE EscapeRange(_, _, _)
EscapeRange(s, lo, hi) ==
  IF lo > hi THEN ""
  ELSE IF \A i \in lo..hi : CharAt(s, i) \notin {"\"", "\\"} THEN SubSeq(s, lo, hi)
  ELSE IF lo = hi THEN "\\" \o CharAt(s, lo)
  ELSE LET mid == (lo + hi) \div 2
       IN EscapeRange(s, lo, mid) \o EscapeRange(s, mid + 1, hi)

\* QuoteJSONString: the string in double quotes, '"' and '\' escaped (the
\* model's strings hold no control characters and no lone surrogates).
Quote(s) == "\"" \o EscapeRange(s, 1, Len(s)) \o "\""

RECURSIVE Spaces(_)
Spaces(n) == IF n <= 0 THEN "" ELSE " " \o Spaces(n - 1)

\* The separators of SerializeJSONObject / SerializeJSONArray: nothing when
\* the gap is empty, a line feed and the indentation otherwise.
Separator(gap, depth) == IF gap = 0 THEN "" ELSE "\n" \o Spaces(gap * depth)

RECURSIVE Stringify(_, _, _)
RECURSIVE StringifyMembers(_, _, _, _, _)
RECURSIVE StringifyItems(_, _, _, _)

\* A property whose value is undefined is left out of an object.
StringifyMembers(members, i, gap, depth, first) ==
  IF i > Len(members) THEN ""
  ELSE IF members[i].val.k = "undefined"
       THEN StringifyMembers(members, i + 1, gap, depth, first)
       ELSE (IF first THEN "" ELSE ",")
            \o Separator(gap, depth)
            \o Quote(members[i].key) \o (IF gap = 0 THEN ":" ELSE ": ")
            \o Stringify(members[i].val, gap, depth)
            \o StringifyMembers(members, i + 1, gap, depth, FALSE)

\* An array element that is undefined is written as null.
StringifyItems(items, i, gap, depth) ==
  IF i > Len(items) THEN ""
  ELSE (IF i = 1 THEN "" ELSE ",")
       \o Separator(gap, depth)
       \o (IF items[i].val.k = "undefined" THEN "null"
           ELSE Stringify(items[i].val, gap, depth))
       \o StringifyItems(items, i + 1, gap, depth)

Stringify(v, gap, depth) ==
  CASE v.k = "string" -> Quote(v.s)
    [] v.k = "number" -> ToString(v.n)
    [] v.k = "null" -> "null"
    [] v.k = "object" ->
         LET body == StringifyMembers(v.m, 1, gap, depth + 1, TRUE)
         IN IF body = "" THEN "{}"
            ELSE "{" \o body \o Separator(gap, depth) \o "}"
    [] v.k = "array" ->
         IF v.m = <<>> THEN "[]"
         ELSE "[" \o StringifyItems(v.m, 1, gap, depth + 1)
                  \o Separator(gap, depth) \o "]"
    [] OTHER -> "null"

\* JSON.stringify(value) and JSON.stringify(value, null, 2).
JSONStringify(v) == Stringify(v, 0, 0)
JSONStringifyPretty(v) == Stringify(v, 2, 0)

IsDigit(c) == \E d \in 1..10 : CharAt("0123456789", d) = c
DigitValue(c) == (CHOOSE d \in 1..10 : CharAt("0123456789", d) = c) - 1
Token(t, s, n) == [t |-> t, s |-> s, n |-> n]

RECURSIVE SkipSpace(_, _)
SkipSpace(text, i) ==
  IF i <= Len(text) /\ CharAt(text, i) \in {" ", "\n"} THEN SkipSpace(text, i + 1) ELSE i

\* The number of consecutive '\' that end just before position j.
RECURSIVE BackslashesBefore(_, _)
BackslashesBefore(text, j) ==
  IF j > 1 /\ CharAt(text, j - 1) = "\\" THEN 1 + BackslashesBefore(text, j - 1) ELSE 0

\* The characters lo..hi of a string literal's inside with each escape
\* sequence '\c' read as c.
RECURSIVE UnescapeRange(_, _, _)
UnescapeRange(text, lo, hi) ==
  IF lo > hi THEN ""
  ELSE IF \A i \in lo..hi : CharAt(text, i) /= "\\" THEN SubSeq(text, lo, hi)
  ELSE LET b == CHOOSE i \in lo..hi :
                  CharAt(text, i) = "\\" /\ \A k \in lo..(i - 1) : CharAt(text, k) /= "\\"
       IN SubSeq(text, lo, b - 1) \o CharAt(text, b + 1) \o UnescapeRange(text, b + 2, hi)

\* The string literal whose opening quote is just before position i: its
\* value and the position after its closing quote (the first '"' that an
\* even number of '\' precedes), or ok = FALSE when the text ends first.
ScanString(text, i) ==
  LET closing == {j \in i..Len(text) :
                    CharAt(text, j) = "\"" /\ BackslashesBefore(text, j) % 2 = 0}
  IN IF closing = {} THEN [ok |-> FALSE, s |-> "", next |-> i]
     ELSE LET j == CHOOSE c \in closing : \A d \in closing : c <= d
          IN [ok |-> TRUE, s |-> UnescapeRange(text, i, j - 1), next |-> j + 1]

RECURSIVE ScanNumber(_, _, _)
ScanNumber(text, i, acc) ==
  IF i <= Len(text) /\ IsDigit(CharAt(text, i))
  THEN ScanNumber(text, i + 1, 10 * acc + DigitValue(CharAt(text, i)))
  ELSE [n |-> acc, next |-> i]

\* The tokens of a JSON text, or <<Token("error", ...)>> at the point where
\* the text is no JSON.
RECURSIVE Tokenize(_, _)
Tokenize(text, from) ==
  LET i == SkipSpace(text, from)
  IN IF i > Len(text) THEN <<>>
     ELSE LET c == CharAt(text, i)
          IN IF c \in {"{", "}", "[", "]", ":", ","}
             THEN <<Token(c, "", 0)>> \o Tokenize(text, i + 1)
             ELSE IF c = "\""
             THEN LET r == ScanString(text, i + 1)
                  IN IF r.ok THEN <<Token("string", r.s, 0)>> \o Tokenize(text, r.next)
                     ELSE <<Token("error", "", 0)>>
             ELSE IF IsDigit(c)
             THEN LET r == ScanNumber(text, i, 0)
                  IN <<Token("number", "", r.n)>> \o Tokenize(text, r.next)
             ELSE IF i + 3 <= Len(text) /\ SubSeq(text, i, i + 3) = "null"
             THEN <<Token("null", "", 0)>> \o Tokenize(text, i + 4)
             ELSE <<Token("error", "", 0)>>

ParseFail == [ok |-> FALSE, val |-> JUndefined, next |-> 0]
Parsed(v, next) == [ok |-> TRUE, val |-> v, next |-> next]
TokenIs(toks, i, t) == i <= Len(toks) /\ toks[i].t = t

RECURSIVE ParseValue(_, _)
RECURSIVE ParseMembers(_, _, _)
RECURSIVE ParseItems(_, _, _)

\* The members of an object after its "{" or after a ",": obj holds those
\* read so far.  A repeated key keeps its place and takes the later value.
ParseMembers(toks, i, obj) ==
  IF ~(TokenIs(toks, i, "string") /\ TokenIs(toks, i + 1, ":")) THEN ParseFail
  ELSE LET r == ParseValue(toks, i + 2)
       IN IF ~r.ok THEN ParseFail
          ELSE LET o == ObjDefine(obj, toks[i].s, r.val)
               IN IF TokenIs(toks, r.next, ",") THEN ParseMembers(toks, r.next + 1, o)
                  ELSE IF TokenIs(toks, r.next, "}") THEN Parsed(o, r.next + 1)
                  ELSE ParseFail

ParseItems(toks, i, arr) ==
  LET r == ParseValue(toks, i)
  IN IF ~r.ok THEN ParseFail
     ELSE LET a == [arr EXCEPT !.m = Append(@, Member("", r.val))]
          IN IF TokenIs(toks, r.next, ",") THEN ParseItems(toks, r.next + 1, a)
             ELSE IF TokenIs(toks, r.next, "]") THEN Parsed(a, r.next + 1)
             ELSE ParseFail

ParseValue(toks, i) ==
  IF i > Len(toks) THEN ParseFail
  ELSE CASE toks[i].t = "string" -> Parsed(JString(toks[i].s), i + 1)
         [] toks[i].t = "number" -> Parsed(JNumber(toks[i].n), i + 1)
         [] toks[i].t = "null" -> Parsed(JNull, i + 1)
         [] toks[i].t = "{" ->
              IF TokenIs(toks, i + 1, "}") THEN Parsed(JObject(<<>>), i + 2)
              ELSE ParseMembers(toks, i + 1, JObject(<<>>))
         [] toks[i].t = "[" ->
              IF TokenIs(toks, i + 1, "]") THEN Parsed(JArray(<<>>), i + 2)
              ELSE ParseItems(toks, i + 1, JArray(<<>>))
         [] OTHER -> ParseFail

\* JSON.parse(text): ok = FALSE stands for its SyntaxError.
JSONParse(text) ==
  LET toks == Tokenize(text, 1)
      r == ParseValue(toks, 1)
  IN IF r.ok /\ r.next = Len(toks) + 1 THEN [ok |-> TRUE, val |-> r.val]
     ELSE [ok |-> FALSE, val |-> JUndefined]

(***************************************************************************)
(* Bytes, hex and the ideal primitives                                     *)
(***************************************************************************)

HexDigits == "0123456789abcdef"
HexUpper == "0123456789ABCDEF"

\* Number.prototype.toString(16) of a byte, zero-padded as bytesToHex pads it.
ByteToHex(b) == CharAt(HexDigits, (b \div 16) + 1) \o CharAt(HexDigits, (b % 16) + 1)

RECURSIVE BytesToHexRange(_, _, _)
BytesToHexRange(bytes, lo, hi) ==
  IF lo > hi THEN ""
  ELSE IF lo = hi THEN ByteToHex(bytes[lo])
  ELSE LET mid == (lo + hi) \div 2
       IN BytesToHexRange(bytes, lo, mid) \o BytesToHexRange(bytes, mid + 1, hi)

\* bytesToHex, and Buffer.prototype.toString('hex').
bytesToHex(bytes) == BytesToHexRange(bytes, 1, Len(bytes))

\* The value of a hexadecimal digit, -1 for any other character.
HexValue(c) ==
  IF \E d \in 1..16 : CharAt(HexDigits, d) = c
  THEN (CHOOSE d \in 1..16 : CharAt(HexDigits, d) = c) - 1
  ELSE IF \E d \in 1..16 : CharAt(HexUpper, d) = c
  THEN (CHOOSE d \in 1..16 : CharAt(HexUpper, d) = c) - 1
  ELSE -1

\* parseInt(pair, 16) stored into a Uint8Array: the longest hexadecimal
\* prefix of the pair, and 0 for NaN.
ParseHexPair(pair) ==
  LET a == HexValue(CharAt(pair, 1))
      b == HexValue(CharAt(pair, 2))
  IN IF a < 0 THEN 0 ELSE IF b < 0 THEN a ELSE 16 * a + b

\* hexToBytes: floor(length / 2) bytes; a trailing odd character is dropped.
hexToBytes(hex) ==
  [i \in 1..(Len(hex) \div 2) |-> ParseHexPair(SubSeq(hex, 2 * i - 1, 2 * i))]

\* stringToBuffer / Buffer.from(str): UTF-8, one byte per character for the
\* ASCII strings of the model.
stringToBuffer(str) == [i \in 1..Len(str) |-> CharCode(CharAt(str, i))]

\* SHA-256 as an ideal hash: collision-free, so a digest determines its
\* input.  The digest of a message is written as the message's own bytes.
Sha256Digest(bytes) == bytes

\* sha256hex (manifest.ts): createHash('sha256').update(data).digest('hex').
sha256hex(bytes) == bytesToHex(Sha256Digest(bytes))

\* sha256 (bootstrap.js): crypto.subtle.digest or sha256js, then bytesToHex.
sha256(bytes) == bytesToHex(Sha256Digest(bytes))

\* Ed25519 key pairs: a PEM private key and its base64 SPKI public key.
PrivateKeys == {"K1", "K2"}
PublicKeyOf(priv) == "pub" \o priv
PublicKeys == {PublicKeyOf(k) : k \in PrivateKeys}
PrivateKeyOf(pub) == CHOOSE k \in PrivateKeys : PublicKeyOf(k) = pub
KeyByte(priv) == CharCode(CharAt(priv, 2))

\* crypto.sign(null, data, privateKeyPem) as an ideal signature: it names the
\* key and the data, and only the holder of the key can produce it.
Ed25519Sign(priv, data) == <<KeyByte(priv)>> \o data

\* crypto.subtle.verify({name: 'Ed25519'}, publicKey, signature, data).
Ed25519Verify(pub, sigBytes, data) ==
  sigBytes = Ed25519Sign(PrivateKeyOf(pub), data)

(***************************************************************************)
(* manifest.ts: the build's side of the manifest                           *)
(***************************************************************************)

\* A resource entry read as the code reads it: entry.hash, entry.size.
EntryOf(manifest, key) == ObjGet(ObjGet(manifest, "resources"), key)

RECURSIVE CanonicalResources(_, _, _)
\* for (const key of keys) resources[key] = {hash: r.hash, size: r.size}
CanonicalResources(manifest, keys, acc) ==
  IF keys = <<>> THEN acc
  ELSE LET r == EntryOf(manifest, Head(keys))
       IN CanonicalResources(manifest, Tail(keys),
            ObjSet(acc, Head(keys),
                   JObject(<<Member("hash", ObjGet(r, "hash")),
                             Member("size", ObjGet(r, "size"))>>)))

\* A faulty canonical form that takes the resource keys in insertion order
\* (what CanonicalOrderIndependent must tell apart).
canonicalizeManifestUnsorted(manifest) ==
  LET keys == ObjectKeys(ObjGet(manifest, "resources"))
      resources == CanonicalResources(manifest, keys, JObject(<<>>))
  IN JSONStringify(JObject(<<Member("version", ObjGet(manifest, "version")),
                             Member("timestamp", ObjGet(manifest, "timestamp")),
                             Member("resources", resources)>>))

\* A faulty canonical form that copies the resources as they are, mirror
\* urls included (what CanonicalOnlySignedContent must tell apart).
canonicalizeManifestWholeEntries(manifest) ==
  JSONStringify(JObject(<<Member("version", ObjGet(manifest, "version")),
                          Member("timestamp", ObjGet(manifest, "timestamp")),
                          Member("resources", ObjGet(manifest, "resources"))>>))

\* canonicalizeManifest (manifest.ts): the text the build signs and hashes.
canonicalizeManifest(manifest) ==
  LET keys == SortStrings(ObjectKeys(ObjGet(manifest, "resources")))
      resources == CanonicalResources(manifest, keys, JObject(<<>>))
  IN JSONStringify(JObject(<<Member("version", ObjGet(manifest, "version")),
                             Member("timestamp", ObjGet(manifest, "timestamp")),
                             Member("resources", resources)>>))

RECURSIVE ManifestResources(_, _)
\* for (const [path, content] of files) resources[path] = {hash, size}
ManifestResources(files, acc) ==
  IF files = <<>> THEN acc
  ELSE ManifestResources(Tail(files),
         ObjSet(acc, Head(files).path,
                JObject(<<Member("hash", JString("sha256-" \o sha256hex(Head(files).content))),
                          Member("size", JNumber(Len(Head(files).content)))>>)))

\* generateManifest(files, version): files in the Map's iteration order, now
\* the value of new Date().toISOString().
generateManifest(files, version, now) ==
  JObject(<<Member("version", JString(version)),
            Member("timestamp", JString(now)),
            Member("resources", ManifestResources(files, JObject(<<>>)))>>)

\* A faulty signing that stamps the signed copy with a timestamp of its own
\* (what SigningAddsOnlySignature must tell apart).
signManifestRestamping(manifest, privateKeyPem) ==
  LET canonical == canonicalizeManifest(manifest)
      signature == Ed25519Sign(privateKeyPem, stringToBuffer(canonical))
  IN ObjDefine(ObjDefine(manifest, "timestamp", JString("signed")),
               "signature", JString(bytesToHex(signature)))

\* signManifest(manifest, privateKeyPem): {...manifest, signature}.
signManifest(manifest, privateKeyPem) ==
  LET canonical == canonicalizeManifest(manifest)
      signature == Ed25519Sign(privateKeyPem, stringToBuffer(canonical))
  IN ObjDefine(manifest, "signature", JString(bytesToHex(signature)))

(***************************************************************************)
(* bootstrap.js: the loader's side of the manifest                         *)
(***************************************************************************)

RECURSIVE BootstrapCanonicalResources(_, _, _)
\* canonical.resources[key] = {hash: ..., size: ...} for each sorted key.
BootstrapCanonicalResources(manifest, keys, canonical) ==
  IF keys = <<>> THEN canonical
  ELSE LET key == Head(keys)
           entry == JObject(<<Member("hash", ObjGet(EntryOf(manifest, key), "hash")),
                              Member("size", ObjGet(EntryOf(manifest, key), "size"))>>)
           resources == ObjSet(ObjGet(canonical, "resources"), key, entry)
       IN BootstrapCanonicalResources(manifest, Tail(keys),
            ObjDefine(canonical, "resources", resources))

\* A faulty loader canonicalization that keeps the manifest's own key order
\* instead of sorting (what CanonicalFormsAgree must tell apart).
bootstrapCanonicalizeUnsorted(manifest) ==
  LET canonical == JObject(<<Member("version", ObjGet(manifest, "version")),
                             Member("timestamp", ObjGet(manifest, "timestamp")),
                             Member("resources", JObject(<<>>))>>)
      keys == ObjectKeys(ObjGet(manifest, "resources"))
  IN JSONStringify(BootstrapCanonicalResources(manifest, keys, canonical))

\* canonicalizeManifest (bootstrap.js): the text the loader verifies and pins.
bootstrapCanonicalizeManifest(manifest) ==
  LET canonical == JObject(<<Member("version", ObjGet(manifest, "version")),
                             Member("timestamp", ObjGet(manifest, "timestamp")),
                             Member("resources", JObject(<<>>))>>)
      keys == SortStrings(ObjectKeys(ObjGet(manifest, "resources")))
  IN JSONStringify(BootstrapCanonicalResources(manifest, keys, canonical))

\* A faulty signature check that accepts a signature made with any key
\* (what WrongKeyRejected must tell apart).
verifySignatureAnyKey(publicKey, signature, data) ==
  \E pub \in PublicKeys : Ed25519Verify(pub, hexToBytes(signature), stringToBuffer(data))

\* verifySignature(publicKey, signature, data).
verifySignature(publicKey, signature, data) ==
  Ed25519Verify(publicKey, hexToBytes(signature), stringToBuffer(data))

\* A faulty verifier that stops after the structure test and never checks
\* the signature (what SignatureBeforeResources must tell apart).
verifyManifestStructureOnly(manifest, publicKey) ==
  IF ~Truthy(manifest) \/ ~Truthy(ObjGet(manifest, "version"))
     \/ ~Truthy(ObjGet(manifest, "resources")) \/ ~Truthy(ObjGet(manifest, "signature"))
  THEN "Invalid manifest structure"
  ELSE "ok"

\* A faulty verifier that takes the key from the manifest's publicKey field
\* when there is one (what VerifierKeyIsEmbedded must tell apart).
verifyManifestKeyFromManifest(manifest, publicKey) ==
  IF ~Truthy(manifest) \/ ~Truthy(ObjGet(manifest, "version"))
     \/ ~Truthy(ObjGet(manifest, "resources")) \/ ~Truthy(ObjGet(manifest, "signature"))
  THEN "Invalid manifest structure"
  ELSE IF verifySignature(IF Truthy(ObjGet(manifest, "publicKey"))
                          THEN ObjGet(manifest, "publicKey").s ELSE publicKey,
                          ObjGet(manifest, "signature").s,
                          bootstrapCanonicalizeManifest(manifest))
  THEN "ok"
  ELSE "Manifest signature verification failed"

\* verifyManifest(manifest, publicKey): the message of the rejection, or
\* "ok" when the promise resolves with the manifest.
verifyManifest(manifest, publicKey) ==
  IF ~Truthy(manifest) \/ ~Truthy(ObjGet(manifest, "version"))
     \/ ~Truthy(ObjGet(manifest, "resources")) \/ ~Truthy(ObjGet(manifest, "signature"))
  THEN "Invalid manifest structure"
  ELSE IF verifySignature(publicKey, ObjGet(manifest, "signature").s,
                          bootstrapCanonicalizeManifest(manifest))
  THEN "ok"
  ELSE "Manifest signature verification failed"

\* verifyResource(content, expectedHash): content is the decoded text.
\* expectedHash.replace(/^sha256-/, '') strips the prefix when it is there.
StripSha256Prefix(expectedHash) ==
  IF StartsWith(expectedHash, "sha256-")
  THEN SubSeq(expectedHash, 8, Len(expectedHash))
  ELSE expectedHash

(***************************************************************************)
(* Resource contents: bytes on the wire, text in the loader                *)
(***************************************************************************)

ReplacementChar == 65533
IsContinuation(b) == b >= 128 /\ b <= 191

\* For a lead byte: how many continuation bytes follow it and the range the
\* first of them must lie in (the Encoding Standard's UTF-8 decoder).
Utf8Lead(b) ==
  CASE b >= 194 /\ b <= 223 -> [need |-> 1, lo |-> 128, hi |-> 191, bits |-> b - 192]
    [] b = 224 -> [need |-> 2, lo |-> 160, hi |-> 191, bits |-> 0]
    [] b = 237 -> [need |-> 2, lo |-> 128, hi |-> 159, bits |-> 13]
    [] b >= 225 /\ b <= 239 -> [need |-> 2, lo |-> 128, hi |-> 191, bits |-> b - 224]
    [] b = 240 -> [need |-> 3, lo |-> 144, hi |-> 191, bits |-> 0]
    [] b = 244 -> [need |-> 3, lo |-> 128, hi |-> 143, bits |-> 4]
    [] b >= 241 /\ b <= 243 -> [need |-> 3, lo |-> 128, hi |-> 191, bits |-> b - 240]
    [] OTHER -> [need |-> 0, lo |-> 0, hi |-> 0, bits |-> 0]

\* The decoder from position i: seen continuation bytes of the need expected
\* have been read into cp; lo..hi is the range allowed for the next byte.  A
\* byte that cannot continue the sequence ends it with U+FFFD and is read
\* again as a first byte.
RECURSIVE Utf8DecodeFrom(_, _, _, _, _, _, _)
Utf8DecodeFrom(bytes, i, need, seen, cp, lo, hi) ==
  IF i > Len(bytes) THEN (IF need > 0 THEN <<ReplacementChar>> ELSE <<>>)
  ELSE LET b == bytes[i]
       IN IF need = 0
          THEN IF b <= 127 THEN <<b>> \o Utf8DecodeFrom(bytes, i + 1, 0, 0, 0, 128, 191)
               ELSE LET lead == Utf8Lead(b)
                    IN IF lead.need = 0
                       THEN <<ReplacementChar>>
                            \o Utf8DecodeFrom(bytes, i + 1, 0, 0, 0, 128, 191)
                       ELSE Utf8DecodeFrom(bytes, i + 1, lead.need, 0, lead.bits,
                                           lead.lo, lead.hi)
          ELSE IF b < lo \/ b > hi
               THEN <<ReplacementChar>> \o Utf8DecodeFrom(bytes, i, 0, 0, 0, 128, 191)
               ELSE LET c == cp * 64 + (b - 128)
                    IN IF seen + 1 = need
                       THEN <<c>> \o Utf8DecodeFrom(bytes, i + 1, 0, 0, 0, 128, 191)
                       ELSE Utf8DecodeFrom(bytes, i + 1, need, seen + 1, c, 128, 191)

\* Response.text(): "UTF-8 decode", which drops a leading byte order mark and
\* replaces what is not UTF-8 by U+FFFD.  The result is a sequence of code
\* points.
ResponseText(bytes) ==
  IF Len(bytes) >= 3 /\ SubSeq(bytes, 1, 3) = <<239, 187, 191>>
  THEN Utf8DecodeFrom(bytes, 4, 0, 0, 0, 128, 191)
  ELSE Utf8DecodeFrom(bytes, 1, 0, 0, 0, 128, 191)

Utf8EncodeCodePoint(c) ==
  IF c <= 127 THEN <<c>>
  ELSE IF c <= 2047 THEN <<192 + (c \div 64), 128 + (c % 64)>>
  ELSE IF c <= 65535
  THEN <<224 + (c \div 4096), 128 + ((c \div 64) % 64), 128 + (c % 64)>>
  ELSE <<240 + (c \div 262144), 128 + ((c \div 4096) % 64),
         128 + ((c \div 64) % 64), 128 + (c % 64)>>

RECURSIVE TextEncode(_)
\* new TextEncoder().encode(str) for a text given as code points.
TextEncode(text) ==
  IF text = <<>> THEN <<>> ELSE Utf8EncodeCodePoint(Head(text)) \o TextEncode(Tail(text))

\* verifyResource(content, expectedHash): the loader hashes the UTF-8
\* encoding of the decoded text and compares it with the manifest's hash
\* without its "sha256-" prefix.
verifyResource(content, expectedHash) ==
  sha256(TextEncode(content)) = StripSha256Prefix(expectedHash)

(***************************************************************************)
(* bookmarklet.ts: the trust anchor                                        *)
(***************************************************************************)

Attr(name, value) == [name |-> name, value |-> value]

\* A faulty buildBookmarkletHtml that writes data-hash in locked mode only
\* (what DataHashWheneverPinGiven must tell apart).
buildBookmarkletHtmlHashIfLocked(options) ==
  <<Attr("src", options.bootstrapUrl),
    Attr("integrity", "sha256-" \o options.bootstrapHashBase64),
    Attr("crossorigin", "anonymous")>>
  \o (IF options.updateMode = "locked" THEN <<Attr("data-mode", "locked")>> ELSE <<>>)
  \o (IF options.updateMode = "locked" /\ options.manifestHash /= ""
      THEN <<Attr("data-hash", options.manifestHash)>> ELSE <<>>)
  \o <<Attr("onerror", "document.body.innerHTML='Secure app load failed.'")>>

\* A faulty buildBookmarkletHtml that writes the mode whatever it is (what
\* ModeRoundTrips must tell apart).
buildBookmarkletHtmlModeAlways(options) ==
  <<Attr("src", options.bootstrapUrl),
    Attr("integrity", "sha256-" \o options.bootstrapHashBase64),
    Attr("crossorigin", "anonymous"),
    Attr("data-mode", options.updateMode)>>
  \o (IF options.manifestHash /= "" THEN <<Attr("data-hash", options.manifestHash)>> ELSE <<>>)
  \o <<Attr("onerror", "document.body.innerHTML='Secure app load failed.'")>>

\* buildBookmarkletHtml: the attributes of the <script> element, in order.
buildBookmarkletHtml(options) ==
  <<Attr("src", options.bootstrapUrl),
    Attr("integrity", "sha256-" \o options.bootstrapHashBase64),
    Attr("crossorigin", "anonymous")>>
  \o (IF options.updateMode = "locked" THEN <<Attr("data-mode", "locked")>> ELSE <<>>)
  \o (IF options.manifestHash /= "" THEN <<Attr("data-hash", options.manifestHash)>> ELSE <<>>)
  \o <<Attr("onerror", "document.body.innerHTML='Secure app load failed.'")>>

\* generateBookmarklet(options): an omitted updateMode or manifestHash is "".
generateBookmarklet(options) ==
  buildBookmarkletHtml(
    [bootstrapUrl |-> options.bootstrapUrl,
     bootstrapHashBase64 |-> options.bootstrapHashBase64,
     updateMode |-> IF options.updateMode = "" THEN "auto" ELSE options.updateMode,
     manifestHash |-> options.manifestHash])

\* script.getAttribute(name) || fallback
GetAttributeOr(attrs, name, fallback) ==
  IF \E i \in 1..Len(attrs) : attrs[i].name = name /\ attrs[i].value /= ""
  THEN attrs[CHOOSE i \in 1..Len(attrs) : attrs[i].name = name].value
  ELSE fallback

(***************************************************************************)
(* builder.ts: buildApp                                                    *)
(***************************************************************************)

PublicKeyPlaceholder == "__PUBLIC_KEY__"

\* Step 3: the public key to embed.
DerivePublicKey(options) ==
  IF options.privateKey /= "" /\ options.publicKey = ""
  THEN PublicKeyOf(options.privateKey)
  ELSE options.publicKey

\* Step 4: bootstrap.js with the key in place of the placeholder; the value
\* is that of its EMBEDDED_PUBLIC_KEY.
InjectPublicKey(publicKeyBase64) ==
  IF publicKeyBase64 /= "" THEN publicKeyBase64 ELSE PublicKeyPlaceholder

\* The line of runtime/bootstrap.js that step 4 rewrites; the rest of the
\* file is the same in every build.
BootstrapSource == "var EMBEDDED_PUBLIC_KEY = '__PUBLIC_KEY__';"

\* str.replace(pattern, replacement) with a string pattern: the first
\* occurrence only (the replacements of the model hold no '$').
ReplaceFirst(str, pattern, replacement) ==
  LET at == {i \in 1..(Len(str) - Len(pattern) + 1) :
               SubSeq(str, i, i + Len(pattern) - 1) = pattern}
      first == CHOOSE i \in at : \A j \in at : i <= j
  IN IF at = {} THEN str
     ELSE SubSeq(str, 1, first - 1) \o replacement
          \o SubSeq(str, first + Len(pattern), Len(str))

\* Step 4: the text written to bootstrap.js.
BootstrapOutput(publicKeyBase64) ==
  IF publicKeyBase64 /= ""
  THEN ReplaceFirst(BootstrapSource, "'" \o PublicKeyPlaceholder \o "'",
                    JSONStringify(JString(publicKeyBase64)))
  ELSE BootstrapSource

\* A faulty step 4 that hashes the runtime file as read, before the key is
\* substituted (what BootstrapDigestCoversWritten must tell apart).
BootstrapHashBeforeSubstitution(bootstrapOutput) ==
  "b64" \o sha256hex(stringToBuffer(BootstrapSource))

\* createHash('sha256').update(bootstrapOutput).digest('base64'): base64 of
\* the digest of the deployed bootstrap.js (ideal: names the bytes).
BootstrapHashBase64(bootstrapOutput) == "b64" \o sha256hex(stringToBuffer(bootstrapOutput))

\* The output directory: files by name, in readdirSync order.
HasFile(dir, name) == \E i \in 1..Len(dir) : dir[i].name = name

FileContent(dir, name) == dir[CHOOSE i \in 1..Len(dir) : dir[i].name = name].content

\* fs.writeFileSync / fs.copyFileSync / a bundle output: the file is created
\* or its content replaced.
WriteFile(dir, name, content) ==
  IF HasFile(dir, name)
  THEN [i \in 1..Len(dir) |->
          IF dir[i].name = name THEN [name |-> name, content |-> content] ELSE dir[i]]
  ELSE Append(dir, [name |-> name, content |-> content])

RECURSIVE WriteFiles(_, _)
WriteFiles(dir, files) ==
  IF files = <<>> THEN dir
  ELSE WriteFiles(WriteFile(dir, Head(files).name, Head(files).content), Tail(files))

InfrastructureFiles == {"bootstrap.js", "manifest.json", "index.html", "generator.js"}

RECURSIVE CollectAppFiles(_)
\* Step 5: every file of the output directory but the infrastructure files,
\* as '/' + filename, in readdirSync order.
CollectAppFiles(outDirContents) ==
  IF outDirContents = <<>> THEN <<>>
  ELSE (IF Head(outDirContents).name \in InfrastructureFiles THEN <<>>
        ELSE <<[path |-> "/" \o Head(outDirContents).name,
                content |-> Head(outDirContents).content]>>)
       \o CollectAppFiles(Tail(outDirContents))

\* Steps 6 and 7: the manifest, signed when a private key is configured.
BuildManifest(options) ==
  LET manifest == generateManifest(CollectAppFiles(options.files), options.version,
                                   options.now)
  IN IF options.privateKey /= "" THEN signManifest(manifest, options.privateKey)
     ELSE manifest

\* buildApp: what it deploys and what it hands to the installer.
buildApp(options) ==
  LET embedded == InjectPublicKey(DerivePublicKey(options))
      manifest == BuildManifest(options)
  IN [bootstrapKey |-> embedded,
      bootstrapHashBase64 |-> BootstrapHashBase64(BootstrapOutput(DerivePublicKey(options))),
      files |-> CollectAppFiles(options.files),
      manifestJson |-> JSONStringifyPretty(manifest),
      canonical |-> canonicalizeManifest(manifest),
      manifestHash |-> sha256hex(stringToBuffer(canonicalizeManifest(manifest)))]

\* The output directory buildApp leaves: what bundling and copying put
\* there, bootstrap.js and manifest.json.
OutDirOf(options) ==
  WriteFile(WriteFile(options.files, "bootstrap.js",
                      stringToBuffer(BootstrapOutput(DerivePublicKey(options)))),
            "manifest.json", stringToBuffer(buildApp(options).manifestJson))

(***************************************************************************)
(* The bounded world: builds, trust anchors, and what a host may serve     *)
(***************************************************************************)

\* How many application files a build has.
NumFiles == 2

\* The files a bundle may put into the output directory.
OutputFiles ==
  <<[name |-> "b.css", content |-> <<98>>], [name |-> "a.js", content |-> <<97>>],
    [name |-> "app.html", content |-> <<104>>], [name |-> "c.js", content |-> <<97>>]>>
BootstrapUrl == "https://h/bootstrap.js"
AttackerKey == "K2"

Reverse(seq) == [i \in 1..Len(seq) |-> seq[Len(seq) + 1 - i]]

\* The output directory after bundling and copying: NumFiles files, listed
\* by readdirSync in either direction.
OutDirs ==
  {SubSeq(OutputFiles, 1, NumFiles), Reverse(SubSeq(OutputFiles, 1, NumFiles))}

\* privateKey and publicKey of BuildOptions; "" is an option left out.
KeyConfigs ==
  {[privateKey |-> "", publicKey |-> ""],
   [privateKey |-> "K1", publicKey |-> ""],
   [privateKey |-> "K1", publicKey |-> PublicKeyOf("K1")],
   [privateKey |-> "K1", publicKey |-> "not-a-key"]}

BuildOptionsSet ==
  {[files |-> f, version |-> v, now |-> "t0",
    privateKey |-> k.privateKey, publicKey |-> k.publicKey] :
     f \in OutDirs, v \in {"1", ""}, k \in KeyConfigs}

\* Another release of the same application by the same author: what the
\* host serves once the author has published again (or what it replays).
NextRelease(options) ==
  [options EXCEPT !.version = "2", !.now = "t1",
                  !.files = [i \in 1..Len(options.files) |->
                               [options.files[i] EXCEPT !.content = <<99>>]]]

\* Edits of a manifest object.
SetEntryField(manifest, path, field, val) ==
  ObjDefine(manifest, "resources",
    ObjDefine(ObjGet(manifest, "resources"), path,
      ObjDefine(EntryOf(manifest, path), field, val)))

AddEntry(manifest, path, entry) ==
  ObjDefine(manifest, "resources", ObjDefine(ObjGet(manifest, "resources"), path, entry))

RemoveMember(obj, key) ==
  [obj EXCEPT !.m = SelectSeq(@, LAMBDA mem : mem.key /= key)]

RemoveEntry(manifest, path) ==
  ObjDefine(manifest, "resources", RemoveMember(ObjGet(manifest, "resources"), path))

RenameEntry(manifest, path, newPath) ==
  ObjDefine(manifest, "resources",
    [ObjGet(manifest, "resources") EXCEPT
       !.m = [i \in 1..Len(@) |-> IF @[i].key = path
                                  THEN Member(newPath, @[i].val) ELSE @[i]]])

EvilContent == <<120>>
EvilEntry ==
  JObject(<<Member("hash", JString("sha256-" \o sha256hex(EvilContent))),
            Member("size", JNumber(Len(EvilContent)))>>)

FirstPath(manifest) == ObjectKeys(ObjGet(manifest, "resources"))[1]

\* The alterations of resources: an entry's hash or size changed, an entry
\* added, removed or renamed.
ResourceTampers(d) ==
  {x \in {AddEntry(d, "/evil.js", EvilEntry), AddEntry(d, "__proto__", EvilEntry)} :
     ObjGet(x, "resources") /= ObjGet(d, "resources")}
  \cup (IF ObjGet(d, "resources").m = <<>> THEN {}
        ELSE {SetEntryField(d, FirstPath(d), "hash", ObjGet(EvilEntry, "hash")),
              SetEntryField(d, FirstPath(d), "size", JNumber(7)),
              RemoveEntry(d, FirstPath(d)),
              RenameEntry(d, FirstPath(d), "/evil.js")})

\* Alterations outside the signed content: mirror urls on an entry, a
\* publicKey field naming the attacker's key.
WithUrls(d) ==
  IF ObjGet(d, "resources").m = <<>> THEN d
  ELSE SetEntryField(d, FirstPath(d), "urls",
                     JArray(<<Member("", JString("https://cdn/x"))>>))

WithPublicKey(d) == ObjDefine(d, "publicKey", JString(PublicKeyOf(AttackerKey)))

\* The manifest re-signed by the attacker with the attacker's own key.
AttackerSigned(d) == signManifest(RemoveMember(d, "signature"), AttackerKey)

\* The manifest.json texts a host may answer with, given the deployed site.
ManifestOffers(site, options) ==
  LET d == JSONParse(site.manifestJson).val
  IN {site.manifestJson, "null", "{"}
     \cup {JSONStringifyPretty(x) :
             x \in ResourceTampers(d)
                   \cup {WithUrls(d), WithPublicKey(d), RemoveMember(d, "signature"),
                         ObjDefine(d, "version", JString("2")),
                         RemoveMember(d, "timestamp"),
                         ObjDefine(d, "resources",
                                   JObject(<<Member("/manifest.json", EvilEntry)>>)),
                         AttackerSigned(d), WithPublicKey(AttackerSigned(d)),
                         BuildManifest(NextRelease(options))}}

\* The file a site deploys at a path, <<>> when there is none.
DeployedContent(site, path) ==
  IF \E i \in 1..Len(site.files) : site.files[i].path = path
  THEN site.files[CHOOSE i \in 1..Len(site.files) : site.files[i].path = path].content
  ELSE <<>>

\* The bytes a host may deliver for a path: the deployed file, the deployed
\* file behind a byte order mark, another deployed file, the attacker's
\* content, the next release's.
ContentOffers(site, path) ==
  {DeployedContent(site, path), <<239, 187, 191>> \o DeployedContent(site, path),
   EvilContent, <<99>>}
  \cup {site.files[i].content : i \in 1..Len(site.files)}

\* The manifest digests an installation may pin: none, this build's, the
\* next release's.
PinOffers(site, options) ==
  {"", site.manifestHash, buildApp(NextRelease(options)).manifestHash}

(***************************************************************************)
(* The system: a build, an installation, and one run of the loader         *)
(***************************************************************************)

VARIABLES
  options,              \* the BuildOptions the author built with
  site,                 \* what buildApp deployed and reported
  outdir,               \* the files of the output directory
  anchor,               \* the attributes of the installed <script> element
  EMBEDDED_PUBLIC_KEY,  \* the loader's embedded key
  UPDATE_MODE,          \* script.getAttribute('data-mode') || 'auto'
  MANIFEST_HASH,        \* script.getAttribute('data-hash') || ''
  cryptoSubtle,         \* whether the page has crypto.subtle
  pc,                   \* where the build, the installation and main() are
  manifest,             \* main's manifest variable
  resourcePaths,        \* Object.keys(manifest.resources) of step 4
  index,                \* the resource the chain is at
  received,             \* the body of the response being handled
  resources,            \* main's resources object: verified contents by path
  wire,                 \* the delivered bytes of each verified resource
  failure,              \* err.message handed to showError
  document,             \* the application nodes inserted into the page
  console,              \* console.warn and console.error lines
  requests,             \* the URLs fetched, in order
  sigVerified,          \* the signature check ran and accepted
  pinCompared           \* the locked-mode comparison ran

vars ==
  <<options, site, outdir, anchor, EMBEDDED_PUBLIC_KEY, UPDATE_MODE, MANIFEST_HASH,
    cryptoSubtle, pc, manifest, resourcePaths, index, received, resources, wire,
    failure, document, console, requests, sigVerified, pinCompared>>

buildVars == <<options, site, outdir>>
configVars == <<EMBEDDED_PUBLIC_KEY, UPDATE_MODE, MANIFEST_HASH, cryptoSubtle>>
runVars ==
  <<manifest, resourcePaths, index, received, resources, wire, failure, document,
    console, requests, sigVerified, pinCompared>>

NoOptions ==
  [files |-> <<>>, version |-> "", now |-> "", privateKey |-> "", publicKey |-> ""]

Init ==
  /\ options = NoOptions
  /\ site = buildApp(NoOptions)
  /\ outdir = <<>>
  /\ anchor = <<>>
  /\ EMBEDDED_PUBLIC_KEY = PublicKeyPlaceholder
  /\ UPDATE_MODE = "auto"
  /\ MANIFEST_HASH = ""
  /\ cryptoSubtle = TRUE
  /\ pc = "Unbuilt"
  /\ manifest = JUndefined
  /\ resourcePaths = <<>>
  /\ index = 0
  /\ received = <<>>
  /\ resources = <<>>
  /\ wire = <<>>
  /\ failure = ""
  /\ document = <<>>
  /\ console = <<>>
  /\ requests = <<>>
  /\ sigVerified = FALSE
  /\ pinCompared = FALSE

\* The author runs buildApp.
BuildApp ==
  /\ pc = "Unbuilt"
  /\ \E o \in BuildOptionsSet :
       /\ options' = o
       /\ site' = buildApp(o)
       /\ outdir' = OutDirOf(o)
  /\ pc' = "Built"
  /\ UNCHANGED <<anchor, configVars, runVars>>

\* A faulty generateBookmarklet that stamps the anchor with the time of the
\* build (what AnchorFromInputsOnly must tell apart).
GenerateBookmarkletStamped ==
  /\ pc = "Built"
  /\ \E mode \in {"", "auto", "locked"}, pin \in PinOffers(site, options) :
       anchor' = generateBookmarklet(
                   [bootstrapUrl |-> BootstrapUrl,
                    bootstrapHashBase64 |-> site.bootstrapHashBase64,
                    updateMode |-> mode, manifestHash |-> pin])
                 \o <<Attr("data-built", options.now)>>
  /\ pc' = "Installed"
  /\ UNCHANGED <<buildVars, configVars, runVars>>

\* The installer calls generateBookmarklet with the build's values; the mode
\* and the pinned digest are per-installation choices.
GenerateBookmarklet ==
  /\ pc = "Built"
  /\ \E mode \in {"", "auto", "locked"}, pin \in PinOffers(site, options) :
       anchor' = generateBookmarklet(
                   [bootstrapUrl |-> BootstrapUrl,
                    bootstrapHashBase64 |-> site.bootstrapHashBase64,
                    updateMode |-> mode, manifestHash |-> pin])
  /\ pc' = "Installed"
  /\ UNCHANGED <<buildVars, configVars, runVars>>

\* The anchor loads bootstrap.js (subresource integrity has passed): the
\* script reads its configuration.
LoadBootstrap ==
  /\ pc = "Installed"
  /\ EMBEDDED_PUBLIC_KEY' = site.bootstrapKey
  /\ UPDATE_MODE' = GetAttributeOr(anchor, "data-mode", "auto")
  /\ MANIFEST_HASH' = GetAttributeOr(anchor, "data-hash", "")
  /\ \E subtle \in BOOLEAN : cryptoSubtle' = subtle
  /\ pc' = "Init"
  /\ UNCHANGED <<buildVars, anchor, runVars>>

\* BOOTSTRAP_URL.replace(/\/[^\/]*$/, '')
ContentBaseUrl(url) ==
  LET slashes == {i \in 1..Len(url) : CharAt(url, i) = "/"}
  IN IF slashes = {} THEN url
     ELSE SubSeq(url, 1, (CHOOSE i \in slashes : \A j \in slashes : j <= i) - 1)

BOOTSTRAP_URL == GetAttributeOr(anchor, "src", "")

\* main(): the manifest request goes out.
Main ==
  /\ pc = "Init"
  /\ requests' = Append(requests, ContentBaseUrl(BOOTSTRAP_URL) \o "/manifest.json")
  /\ pc' = "ManifestFetching"
  /\ UNCHANGED <<buildVars, anchor, configVars, manifest, resourcePaths, index,
                 received, resources, wire, failure, document, console, sigVerified,
                 pinCompared>>

\* The .catch of main: showError('Bootstrap failed: ' + err.message).
Fail(message, lines) ==
  /\ pc' = "Failed"
  /\ failure' = message
  /\ console' = Append(lines, [level |-> "error",
                               message |-> "markproof bootstrap: Bootstrap failed: "
                                           \o message])

\* A faulty fetchManifest that notes a status that is not ok and goes on
\* with the body of the response (what ManifestUnreachableFails must tell
\* apart).
ManifestResponseIgnoringStatus ==
  /\ pc = "ManifestFetching"
  /\ \/ /\ Fail("Failed to fetch", console)
        /\ UNCHANGED manifest
     \/ \E text \in ManifestOffers(site, options), ok \in BOOLEAN :
          IF JSONParse(text).ok
          THEN /\ manifest' = JSONParse(text).val
               /\ pc' = "ManifestVerifying"
               /\ failure' = IF ok THEN failure ELSE "Manifest fetch failed: 404"
               /\ UNCHANGED console
          ELSE /\ Fail("Unexpected token in JSON", console)
               /\ UNCHANGED manifest
  /\ UNCHANGED <<buildVars, anchor, configVars, resourcePaths, index, received,
                 resources, wire, document, requests, sigVerified, pinCompared>>

\* fetchManifest settles: the request fails, the status is not ok, the body
\* is not JSON, or resp.json() yields the manifest.
ManifestResponse ==
  /\ pc = "ManifestFetching"
  /\ \/ /\ \E message \in {"Failed to fetch", "Manifest fetch failed: 404"} :
             Fail(message, console)
        /\ UNCHANGED manifest
     \/ \E text \in ManifestOffers(site, options) :
          IF JSONParse(text).ok
          THEN /\ manifest' = JSONParse(text).val
               /\ pc' = "ManifestVerifying"
               /\ UNCHANGED <<failure, console>>
          ELSE /\ Fail("Unexpected token in JSON", console)
               /\ UNCHANGED manifest
  /\ UNCHANGED <<buildVars, anchor, configVars, resourcePaths, index, received,
                 resources, wire, document, requests, sigVerified, pinCompared>>

KeyEmbedded ==
  EMBEDDED_PUBLIC_KEY /= "" /\ EMBEDDED_PUBLIC_KEY /= PublicKeyPlaceholder

\* What importEd25519PublicKey rejects with when there is no crypto.subtle.
SecureContextError ==
  "Ed25519 verification requires a secure context (crypto.subtle). "
  \o "This data: URL page is not a secure context."

\* What crypto.subtle.importKey (or atob) throws for text that is no key.
ImportKeyError == "DataError: invalid key data"

\* A faulty loader that mentions the missing key on the debug channel only
\* (what UnauthenticatedRunsWarn must tell apart).
NoKeyDebugLine ==
  [level |-> "debug", message |-> "markproof: No signing key embedded."]

NoKeyWarning ==
  [level |-> "warn",
   message |-> "markproof: No signing key embedded. Manifest is NOT signature-verified."]

\* Step 2 of main: the signature check when a key is embedded, the warning
\* and the structure test when none is.
VerifyManifest ==
  /\ pc = "ManifestVerifying"
  /\ IF KeyEmbedded
     THEN IF ~cryptoSubtle
          THEN /\ Fail(SecureContextError, console)
               /\ UNCHANGED sigVerified
          ELSE IF EMBEDDED_PUBLIC_KEY \notin PublicKeys
          THEN /\ Fail(ImportKeyError, console)
               /\ UNCHANGED sigVerified
          ELSE IF verifyManifest(manifest, EMBEDDED_PUBLIC_KEY) = "ok"
          THEN /\ sigVerified' = TRUE
               /\ pc' = "LockedPinCheck"
               /\ UNCHANGED <<failure, console>>
          ELSE /\ Fail(verifyManifest(manifest, EMBEDDED_PUBLIC_KEY), console)
               /\ UNCHANGED sigVerified
     ELSE /\ UNCHANGED sigVerified
          /\ IF manifest.k \in {"null", "undefined"}
             THEN Fail("Cannot read properties of null (reading 'resources')",
                       Append(console, NoKeyWarning))
             ELSE IF ~Truthy(ObjGet(manifest, "resources"))
                     \/ ~Truthy(ObjGet(manifest, "version"))
             THEN Fail("Invalid manifest structure", Append(console, NoKeyWarning))
             ELSE /\ console' = Append(console, NoKeyWarning)
                  /\ pc' = "LockedPinCheck"
                  /\ UNCHANGED failure
  /\ UNCHANGED <<buildVars, anchor, configVars, manifest, resourcePaths, index,
                 received, resources, wire, document, requests, pinCompared>>

\* A faulty chain that renders once the first resource has been verified
\* (what RenderOnlyVerified must tell apart).
FetchFromFirstOnly(i, paths) ==
  IF i > 1 \/ i > Len(paths)
  THEN /\ pc' = "Rendering"
       /\ UNCHANGED requests
  ELSE /\ pc' = "ResourcesFetching"
       /\ requests' = Append(requests, ContentBaseUrl(BOOTSTRAP_URL) \o paths[i])

\* A faulty chain that requests the files the host deploys, by position,
\* instead of the manifest's keys (what OnlyListedLoaded must tell apart).
FetchFromDeployed(i, paths) ==
  IF i > Len(paths)
  THEN /\ pc' = "Rendering"
       /\ UNCHANGED requests
  ELSE /\ pc' = "ResourcesFetching"
       /\ requests' = Append(requests,
                        ContentBaseUrl(BOOTSTRAP_URL)
                        \o (IF i <= Len(site.files) THEN site.files[i].path ELSE paths[i]))

\* The chain of step 4 starts on the resource at position i, or ends.
FetchFrom(i, paths) ==
  IF i > Len(paths)
  THEN /\ pc' = "Rendering"
       /\ UNCHANGED requests
  ELSE /\ pc' = "ResourcesFetching"
       /\ requests' = Append(requests, ContentBaseUrl(BOOTSTRAP_URL) \o paths[i])

\* A faulty step 3 that never compares the digest with the pinned one (what
\* PinnedDigestDecides must tell apart).
LockedPinCheckSkipped ==
  /\ pc = "LockedPinCheck"
  /\ resourcePaths' = ObjectKeys(ObjGet(manifest, "resources"))
  /\ index' = 1
  /\ FetchFrom(1, ObjectKeys(ObjGet(manifest, "resources")))
  /\ UNCHANGED <<buildVars, anchor, configVars, manifest, received, resources, wire,
                 document, sigVerified, failure, console, pinCompared>>

\* A faulty loader that starts on the first resource while the digest is
\* still being compared (what StrictlyOrdered must tell apart).
LockedPinCheckLate ==
  /\ pc = "LockedPinCheck"
  /\ LET hash == sha256(stringToBuffer(bootstrapCanonicalizeManifest(manifest)))
         paths == ObjectKeys(ObjGet(manifest, "resources"))
     IN /\ pinCompared' = (pinCompared \/ (UPDATE_MODE = "locked" /\ MANIFEST_HASH /= ""))
        /\ IF UPDATE_MODE = "locked" /\ MANIFEST_HASH /= "" /\ hash /= MANIFEST_HASH
           THEN /\ Fail("Locked mode: manifest hash mismatch. Expected: "
                        \o MANIFEST_HASH \o ", got: " \o hash, console)
                /\ requests' = IF paths = <<>> THEN requests
                               ELSE Append(requests,
                                           ContentBaseUrl(BOOTSTRAP_URL) \o paths[1])
                /\ UNCHANGED <<resourcePaths, index>>
           ELSE /\ resourcePaths' = paths
                /\ index' = 1
                /\ FetchFrom(1, paths)
                /\ UNCHANGED <<failure, console>>
  /\ UNCHANGED <<buildVars, anchor, configVars, manifest, received, resources, wire,
                 document, sigVerified>>

\* Step 3 of main, then the start of step 4.
LockedPinCheck ==
  /\ pc = "LockedPinCheck"
  /\ LET hash == sha256(stringToBuffer(bootstrapCanonicalizeManifest(manifest)))
         paths == ObjectKeys(ObjGet(manifest, "resources"))
     IN IF UPDATE_MODE = "locked" /\ MANIFEST_HASH /= ""
        THEN /\ pinCompared' = TRUE
             /\ IF hash /= MANIFEST_HASH
                THEN /\ Fail("Locked mode: manifest hash mismatch. Expected: "
                             \o MANIFEST_HASH \o ", got: " \o hash, console)
                     /\ UNCHANGED <<resourcePaths, index, requests>>
                ELSE /\ resourcePaths' = paths
                     /\ index' = 1
                     /\ FetchFrom(1, paths)
                     /\ UNCHANGED <<failure, console>>
        ELSE /\ resourcePaths' = paths
             /\ index' = 1
             /\ FetchFrom(1, paths)
             /\ UNCHANGED <<failure, console, pinCompared>>
  /\ UNCHANGED <<buildVars, anchor, configVars, manifest, received, resources, wire,
                 document, sigVerified>>

\* A faulty fetchResource that requests the resource a second time when the
\* first request fails (what NoRetries must tell apart).
ResourceResponseRetrying ==
  /\ pc = "ResourcesFetching"
  /\ \/ /\ IF \A i \in 1..(Len(requests) - 1) : requests[i] /= requests[Len(requests)]
           THEN /\ requests' = Append(requests, requests[Len(requests)])
                /\ UNCHANGED <<pc, failure, console>>
           ELSE /\ Fail("Failed to fetch", console)
                /\ UNCHANGED requests
        /\ UNCHANGED received
     \/ /\ \E bytes \in ContentOffers(site, resourcePaths[index]) : received' = bytes
        /\ pc' = "ResourcesVerifying"
        /\ UNCHANGED <<failure, console, requests>>
  /\ UNCHANGED <<buildVars, anchor, configVars, manifest, resourcePaths, index,
                 resources, wire, document, sigVerified, pinCompared>>

\* fetchResource settles: the request fails, the status is not ok, or the
\* body arrives.
ResourceResponse ==
  /\ pc = "ResourcesFetching"
  /\ \/ /\ \E message \in {"Failed to fetch",
                           "Resource fetch failed: 404 " \o resourcePaths[index]} :
             Fail(message, console)
        /\ UNCHANGED received
     \/ /\ \E bytes \in ContentOffers(site, resourcePaths[index]) : received' = bytes
        /\ pc' = "ResourcesVerifying"
        /\ UNCHANGED <<failure, console>>
  /\ UNCHANGED <<buildVars, anchor, configVars, manifest, resourcePaths, index,
                 resources, wire, document, requests, sigVerified, pinCompared>>

Node(tag, path, text) == [tag |-> tag, path |-> path, text |-> text]

\* A faulty chain that passes over a resource whose hash does not match and
\* goes on with the next one (what OneResourceAtATime must tell apart).
VerifyResourceSkipping ==
  /\ pc = "ResourcesVerifying"
  /\ LET path == resourcePaths[index]
         content == ResponseText(received)
         expectedHash == ObjGet(EntryOf(manifest, path), "hash").s
     IN /\ IF verifyResource(content, expectedHash)
           THEN /\ resources' = IF path = "__proto__" THEN resources
                                ELSE Append(resources, [path |-> path, content |-> content])
                /\ wire' = Append(wire, [path |-> path, bytes |-> received])
           ELSE UNCHANGED <<resources, wire>>
        /\ index' = index + 1
        /\ FetchFrom(index + 1, resourcePaths)
  /\ UNCHANGED <<buildVars, anchor, configVars, manifest, resourcePaths, received,
                 failure, console, document, sigVerified, pinCompared>>

\* A faulty chain that inserts each resource into the page as soon as its
\* hash has verified (what NothingRenderedMidFlight must tell apart).
VerifyResourceRendering ==
  /\ pc = "ResourcesVerifying"
  /\ LET path == resourcePaths[index]
         content == ResponseText(received)
         expectedHash == ObjGet(EntryOf(manifest, path), "hash").s
     IN IF verifyResource(content, expectedHash)
        THEN /\ resources' = IF path = "__proto__" THEN resources
                             ELSE Append(resources, [path |-> path, content |-> content])
             /\ wire' = Append(wire, [path |-> path, bytes |-> received])
             /\ index' = index + 1
             /\ FetchFrom(index + 1, resourcePaths)
             /\ document' = Append(document, Node("script", path, content))
             /\ UNCHANGED <<failure, console>>
        ELSE /\ Fail("Resource hash mismatch: expected " \o StripSha256Prefix(expectedHash)
                     \o ", got: " \o sha256(TextEncode(content)), console)
             /\ UNCHANGED <<resources, wire, index, requests, document>>
  /\ UNCHANGED <<buildVars, anchor, configVars, manifest, resourcePaths, received,
                 sigVerified, pinCompared>>

\* resp.text(), verifyResource, resources[path] = content, then the next
\* link of the chain.
VerifyResource ==
  /\ pc = "ResourcesVerifying"
  /\ LET path == resourcePaths[index]
         content == ResponseText(received)
         expectedHash == ObjGet(EntryOf(manifest, path), "hash").s
     IN IF verifyResource(content, expectedHash)
        THEN /\ resources' = IF path = "__proto__" THEN resources
                             ELSE Append(resources, [path |-> path, content |-> content])
             /\ wire' = Append(wire, [path |-> path, bytes |-> received])
             /\ index' = index + 1
             /\ FetchFrom(index + 1, resourcePaths)
             /\ UNCHANGED <<failure, console>>
        ELSE /\ Fail("Resource hash mismatch: expected " \o StripSha256Prefix(expectedHash)
                     \o ", got: " \o sha256(TextEncode(content)), console)
             /\ UNCHANGED <<resources, wire, index, requests>>
  /\ UNCHANGED <<buildVars, anchor, configVars, manifest, resourcePaths, received,
                 document, sigVerified, pinCompared>>

\* resources[path] in injectApp: the verified text, <<>> when there is none
\* (an absent or an empty resource is skipped either way).
ResourceText(res, path) ==
  IF \E i \in 1..Len(res) : res[i].path = path
  THEN res[CHOOSE i \in 1..Len(res) : res[i].path = path].content
  ELSE <<>>

RECURSIVE InjectByExtension(_, _, _, _)
\* One loop of injectApp over Object.keys(manifest.resources): an element
\* for each resource whose path ends in the extension and has content.
InjectByExtension(res, keys, extension, tag) ==
  IF keys = <<>> THEN <<>>
  ELSE (IF ResourceText(res, Head(keys)) /= <<>> /\ EndsWith(Head(keys), extension)
        THEN <<Node(tag, Head(keys), ResourceText(res, Head(keys)))>>
        ELSE <<>>)
       \o InjectByExtension(res, Tail(keys), extension, tag)

\* resources['/app.html'] || resources['/index.html'] || resources['/main.html']
HtmlPath(res) ==
  IF ResourceText(res, "/app.html") /= <<>> THEN "/app.html"
  ELSE IF ResourceText(res, "/index.html") /= <<>> THEN "/index.html"
  ELSE IF ResourceText(res, "/main.html") /= <<>> THEN "/main.html"
  ELSE ""

\* The page injectApp builds: styles, the parsed HTML, then scripts.
injectApp(res, m) ==
  LET keys == ObjectKeys(ObjGet(m, "resources"))
  IN InjectByExtension(res, keys, ".css", "style")
     \o (IF HtmlPath(res) /= ""
         THEN <<Node("html", HtmlPath(res), ResourceText(res, HtmlPath(res)))>>
         ELSE <<>>)
     \o InjectByExtension(res, keys, ".js", "script")

\* A faulty step 5 that fetches each path again and renders what the host
\* delivers then, unverified (what ManifestAndContentUsedAsVerified must tell
\* apart).
InjectAppRefetching ==
  /\ pc = "Rendering"
  /\ document' = injectApp([i \in 1..Len(resources) |->
                              [path |-> resources[i].path,
                               content |-> ResponseText(EvilContent)]], manifest)
  /\ pc' = "Done"
  /\ UNCHANGED <<buildVars, anchor, configVars, manifest, resourcePaths, index,
                 received, resources, wire, failure, console, requests, sigVerified,
                 pinCompared>>

\* Step 5 of main: injectApp renders, or throws before the new head and
\* body are attached and reports through showError.
InjectApp ==
  /\ pc = "Rendering"
  /\ \/ /\ document' = injectApp(resources, manifest)
        /\ pc' = "Done"
        /\ UNCHANGED <<failure, console>>
     \/ /\ document' = <<>>
        /\ pc' = "Failed"
        /\ failure' = "Failed to inject app: unknown error"
        /\ console' = Append(console,
                        [level |-> "error",
                         message |-> "markproof bootstrap: Failed to inject app: "
                                     \o "unknown error"])
  /\ UNCHANGED <<buildVars, anchor, configVars, manifest, resourcePaths, index,
                 received, resources, wire, requests, sigVerified, pinCompared>>

Next ==
  \/ BuildApp
  \/ GenerateBookmarklet
  \/ LoadBootstrap
  \/ Main
  \/ ManifestResponse
  \/ VerifyManifest
  \/ LockedPinCheck
  \/ ResourceResponse
  \/ VerifyResource
  \/ InjectApp

Spec == Init /\ [][Next]_vars

\* Runs of the loader alone, from installations the system above reaches:
\* a build without a key, installed in auto mode.
InitLive ==
  /\ options \in {o \in BuildOptionsSet : o.privateKey = "" /\ o.publicKey = ""}
  /\ site = buildApp(options)
  /\ outdir = OutDirOf(options)
  /\ anchor = generateBookmarklet(
                [bootstrapUrl |-> BootstrapUrl,
                 bootstrapHashBase64 |-> site.bootstrapHashBase64,
                 updateMode |-> "auto", manifestHash |-> ""])
  /\ EMBEDDED_PUBLIC_KEY = site.bootstrapKey
  /\ UPDATE_MODE = GetAttributeOr(anchor, "data-mode", "auto")
  /\ MANIFEST_HASH = GetAttributeOr(anchor, "data-hash", "")
  /\ cryptoSubtle = TRUE
  /\ pc = "Init"
  /\ manifest = JUndefined
  /\ resourcePaths = <<>>
  /\ index = 0
  /\ received = <<>>
  /\ resources = <<>>
  /\ wire = <<>>
  /\ failure = ""
  /\ document = <<>>
  /\ console = <<>>
  /\ requests = <<>>
  /\ sigVerified = FALSE
  /\ pinCompared = FALSE

NextLive ==
  \/ Main
  \/ ManifestResponse
  \/ VerifyManifest
  \/ LockedPinCheck
  \/ ResourceResponse
  \/ VerifyResource
  \/ InjectApp

\* The scheduling the loader can count on: a callback of main's promise
\* chain runs once the promise before it has settled. Whether a fetch
\* settles is up to the host and the network: fetchManifest and
\* fetchResource call fetch(url) with no signal and no timer, so nothing on
\* the loader's side makes ManifestResponse or ResourceResponse happen.
SpecLive ==
  /\ InitLive
  /\ [][NextLive]_vars
  /\ WF_vars(Main)
  /\ WF_vars(VerifyManifest)
  /\ WF_vars(LockedPinCheck)
  /\ WF_vars(VerifyResource)
  /\ WF_vars(InjectApp)

(***************************************************************************)
(* The manifest functions on their own: generate, sign, write, read back,  *)
(* verify.  The same variables; options.files holds the entries of the Map *)
(* generateManifest is called with.                                        *)
(***************************************************************************)

\* How many entries a Map of files has at most.
MaxEntries == 2


RECURSIVE FileMaps(_)
FileMaps(n) ==
  IF n = 0 THEN {<<>>}
  ELSE FileMaps(n - 1)
       \cup {Append(f, [path |-> p, content |-> c]) :
               f \in {g \in FileMaps(n - 1) : Len(g) = n - 1},
               p \in {"/b.css", "/a.js", "__proto__"}, c \in {<<97>>, <<98, 99>>}}

ManifestOptionsSet ==
  {[files |-> f, version |-> v, now |-> "t0", privateKey |-> k, publicKey |-> ""] :
     f \in {g \in FileMaps(MaxEntries) :
              \A i, j \in 1..Len(g) : g[i].path = g[j].path => i = j},
     v \in {"1", "", "v\"2"}, k \in {"", "not-a-pem"} \cup PrivateKeys}

InitManifest ==
  /\ options \in ManifestOptionsSet
  /\ site = buildApp(NoOptions)
  /\ outdir = <<>>
  /\ anchor = <<>>
  /\ EMBEDDED_PUBLIC_KEY = PublicKeyPlaceholder
  /\ UPDATE_MODE = "auto"
  /\ MANIFEST_HASH = ""
  /\ cryptoSubtle = TRUE
  /\ pc = "Author"
  /\ manifest = JUndefined
  /\ resourcePaths = <<>>
  /\ index = 0
  /\ received = <<>>
  /\ resources = <<>>
  /\ wire = <<>>
  /\ failure = ""
  /\ document = <<>>
  /\ console = <<>>
  /\ requests = <<>>
  /\ sigVerified = FALSE
  /\ pinCompared = FALSE

GenerateManifest ==
  /\ pc = "Author"
  /\ manifest' = generateManifest(options.files, options.version, options.now)
  /\ pc' = "Generated"
  /\ UNCHANGED <<buildVars, anchor, configVars, resourcePaths, index, received,
                 resources, wire, failure, document, console, requests, sigVerified,
                 pinCompared>>

\* A delivery step lists mirror urls on an entry before the manifest is signed.
AnnotateUrls ==
  /\ pc = "Generated"
  /\ ObjGet(manifest, "resources").m /= <<>>
  /\ manifest' = WithUrls(manifest)
  /\ pc' = "Annotated"
  /\ UNCHANGED <<buildVars, anchor, configVars, resourcePaths, index, received,
                 resources, wire, failure, document, console, requests, sigVerified,
                 pinCompared>>

\* A faulty signManifest that returns a signed manifest whatever the key
\* input is (what MalformedKeyNeverSigns must tell apart).
SignManifestAnyKey ==
  /\ pc \in {"Generated", "Annotated"}
  /\ options.privateKey /= ""
  /\ manifest' = signManifest(manifest, options.privateKey)
  /\ site' = [site EXCEPT !.canonical = canonicalizeManifest(manifest)]
  /\ pc' = "Signed"
  /\ UNCHANGED <<options, outdir, anchor, configVars, resourcePaths, index, received,
                 resources, wire, failure, document, console, requests, sigVerified,
                 pinCompared>>

\* signManifest with the configured private key; site.canonical is the text
\* that was signed.  crypto.sign throws on a key that is no PEM private key:
\* signManifest returns nothing and the caller keeps the manifest it had.
SignManifest ==
  /\ pc \in {"Generated", "Annotated"}
  /\ options.privateKey /= ""
  /\ IF options.privateKey \in PrivateKeys
     THEN /\ manifest' = signManifest(manifest, options.privateKey)
          /\ site' = [site EXCEPT !.canonical = canonicalizeManifest(manifest)]
          /\ pc' = "Signed"
          /\ UNCHANGED failure
     ELSE /\ pc' = "SignFailed"
          /\ failure' = "crypto.sign threw"
          /\ UNCHANGED <<manifest, site>>
  /\ UNCHANGED <<options, outdir, anchor, configVars, resourcePaths, index, received,
                 resources, wire, document, console, requests, sigVerified,
                 pinCompared>>

\* manifest.json is written; the build's digest of the canonical form is
\* taken for the installer.
WriteManifest ==
  /\ pc \in {"Generated", "Annotated", "Signed"}
  /\ pc = "Signed" <=> options.privateKey /= ""
  /\ site' = [site EXCEPT !.manifestJson = JSONStringifyPretty(manifest),
                          !.canonical = IF pc = "Signed" THEN @
                                        ELSE canonicalizeManifest(manifest),
                          !.manifestHash =
                             sha256hex(stringToBuffer(canonicalizeManifest(manifest)))]
  /\ pc' = "Written"
  /\ UNCHANGED <<options, outdir, anchor, configVars, runVars>>

\* The loader's resp.json() of the written file.
ReadManifest ==
  /\ pc = "Written"
  /\ manifest' = JSONParse(site.manifestJson).val
  /\ pc' = "Read"
  /\ UNCHANGED <<buildVars, anchor, configVars, resourcePaths, index, received,
                 resources, wire, failure, document, console, requests, sigVerified,
                 pinCompared>>

\* After signing, the resources of the file are altered and the signature is
\* left as it was; the loader reads the altered file.
AlterResources ==
  /\ pc = "Written"
  /\ options.privateKey /= ""
  /\ \E altered \in ResourceTampers(JSONParse(site.manifestJson).val) :
       manifest' = JSONParse(JSONStringifyPretty(altered)).val
  /\ pc' = "Altered"
  /\ UNCHANGED <<buildVars, anchor, configVars, resourcePaths, index, received,
                 resources, wire, failure, document, console, requests, sigVerified,
                 pinCompared>>

\* verifyManifest(manifest, key) with the key of some keypair.
VerifyWith ==
  /\ pc \in {"Read", "Altered"}
  /\ \E pub \in PublicKeys :
       /\ EMBEDDED_PUBLIC_KEY' = pub
       /\ sigVerified' = (verifyManifest(manifest, pub) = "ok")
       /\ failure' = IF verifyManifest(manifest, pub) = "ok" THEN ""
                     ELSE verifyManifest(manifest, pub)
  /\ pc' = IF pc = "Read" THEN "Verified" ELSE "VerifiedAltered"
  /\ UNCHANGED <<buildVars, anchor, UPDATE_MODE, MANIFEST_HASH, cryptoSubtle, manifest,
                 resourcePaths, index, received, resources, wire, document, console,
                 requests, pinCompared>>

NextManifest ==
  \/ GenerateManifest
  \/ AnnotateUrls
  \/ SignManifest
  \/ WriteManifest
  \/ ReadManifest
  \/ AlterResources
  \/ VerifyWith

SpecManifest == InitManifest /\ [][NextManifest]_vars

(***************************************************************************)
(* buildApp step by step.  The same variables: outdir is the output        *)
(* directory as the steps write into it, site what the build has computed  *)
(* so far, manifest the value of its variable of that name; options also   *)
(* holds what the environment decides (which static sources exist, what    *)
(* the directory held before).                                             *)
(***************************************************************************)

\* BuildOptions and the directory the build starts in.  outputs: what
\* Bun.build emits for the entrypoints; staticFiles: {src, dest} entries, with
\* the content of src and whether src exists; installer: whether the
\* installer page is configured; before: the output directory as an earlier
\* build left it.  "not-a-pem" is a private key that is no PEM key.
BuildRuns ==
  {[outputs |-> b, staticFiles |-> s, version |-> v, now |-> "t0",
    privateKey |-> k.privateKey, publicKey |-> k.publicKey, installer |-> i,
    before |-> d] :
     b \in {<<OutputFiles[2]>>, SubSeq(OutputFiles, 1, NumFiles)},
     s \in {<<>>,
            <<[dest |-> "index.html", content |-> <<105>>, exists |-> TRUE]>>,
            <<[dest |-> "app.html", content |-> <<104>>, exists |-> TRUE],
              [dest |-> "logo.png", content |-> <<>>, exists |-> FALSE]>>},
     v \in {"1", ""},
     k \in {[privateKey |-> "", publicKey |-> ""],
            [privateKey |-> "K1", publicKey |-> ""],
            [privateKey |-> "K1", publicKey |-> PublicKeyOf("K1")],
            [privateKey |-> "", publicKey |-> PublicKeyOf("K1")],
            [privateKey |-> "K1", publicKey |-> PublicKeyOf("K2")],
            [privateKey |-> "not-a-pem", publicKey |-> ""],
            [privateKey |-> "not-a-pem", publicKey |-> PublicKeyOf("K1")]},
     i \in BOOLEAN,
     d \in {<<>>, OutDirOf([files |-> <<[name |-> "a.js", content |-> <<111>>]>>,
                            version |-> "0", now |-> "t0", privateKey |-> "",
                            publicKey |-> ""])}}

InitBuild ==
  /\ options \in BuildRuns
  /\ site = buildApp(NoOptions)
  /\ outdir = options.before
  /\ anchor = <<>>
  /\ EMBEDDED_PUBLIC_KEY = PublicKeyPlaceholder
  /\ UPDATE_MODE = "auto"
  /\ MANIFEST_HASH = ""
  /\ cryptoSubtle = TRUE
  /\ pc = "BuildStart"
  /\ manifest = JUndefined
  /\ resourcePaths = <<>>
  /\ index = 0
  /\ received = <<>>
  /\ resources = <<>>
  /\ wire = <<>>
  /\ failure = ""
  /\ document = <<>>
  /\ console = <<>>
  /\ requests = <<>>
  /\ sigVerified = FALSE
  /\ pinCompared = FALSE

\* Step 1: Bun.build writes its outputs into outdir, or reports no success
\* and buildApp throws.
Bundle ==
  /\ pc = "BuildStart"
  /\ \E success \in BOOLEAN :
       IF success
       THEN /\ outdir' = WriteFiles(outdir, options.outputs)
            /\ pc' = "Bundled"
            /\ UNCHANGED failure
       ELSE /\ pc' = "BuildFailed"
            /\ failure' = "Bun.build failed"
            /\ UNCHANGED outdir
  /\ UNCHANGED <<options, site, anchor, configVars, manifest, resourcePaths, index,
                 received, resources, wire, document, console, requests, sigVerified,
                 pinCompared>>

\* Step 2: the static files are copied in order; fs.copyFileSync throws at
\* the first source that does not exist, after the copies before it.
CopyStatic ==
  /\ pc = "Bundled"
  /\ LET missing == {i \in 1..Len(options.staticFiles) : ~options.staticFiles[i].exists}
         copied == IF missing = {} THEN Len(options.staticFiles)
                   ELSE (CHOOSE i \in missing : \A j \in missing : i <= j) - 1
     IN /\ outdir' = WriteFiles(outdir,
                       [i \in 1..copied |->
                          [name |-> options.staticFiles[i].dest,
                           content |-> options.staticFiles[i].content]])
        /\ IF missing = {}
           THEN pc' = "Copied" /\ UNCHANGED failure
           ELSE pc' = "BuildFailed" /\ failure' = "ENOENT: copyfile"
  /\ UNCHANGED <<options, site, anchor, configVars, manifest, resourcePaths, index,
                 received, resources, wire, document, console, requests, sigVerified,
                 pinCompared>>

\* Steps 3 and 4: the public key is derived (crypto.createPublicKey throws on
\* a private key that is no key), bootstrap.js is written with the key in
\* place, and the digest of what was written is taken.
WriteBootstrap ==
  /\ pc = "Copied"
  /\ IF options.privateKey /= "" /\ options.publicKey = ""
        /\ options.privateKey \notin PrivateKeys
     THEN /\ pc' = "BuildFailed"
          /\ failure' = "crypto.createPublicKey threw"
          /\ UNCHANGED <<site, outdir>>
     ELSE LET bootstrapOutput == BootstrapOutput(DerivePublicKey(options))
          IN /\ outdir' = WriteFile(outdir, "bootstrap.js", stringToBuffer(bootstrapOutput))
             /\ site' = [site EXCEPT
                           !.bootstrapKey = InjectPublicKey(DerivePublicKey(options)),
                           !.bootstrapHashBase64 = BootstrapHashBase64(bootstrapOutput)]
             /\ pc' = "BootstrapWritten"
             /\ UNCHANGED failure
  /\ UNCHANGED <<options, anchor, configVars, manifest, resourcePaths, index,
                 received, resources, wire, document, console, requests, sigVerified,
                 pinCompared>>

\* Steps 5 to 7 and the write: the files of outdir are collected, the
\* manifest generated, signed when a private key is configured (crypto.sign
\* throws on a private key that is no key) and written to manifest.json.
WriteManifestJson ==
  /\ pc = "BootstrapWritten"
  /\ LET appFiles == CollectAppFiles(outdir)
         generated == generateManifest(appFiles, options.version, options.now)
     IN IF options.privateKey /= "" /\ options.privateKey \notin PrivateKeys
        THEN /\ pc' = "BuildFailed"
             /\ failure' = "crypto.sign threw"
             /\ manifest' = generated
             /\ UNCHANGED <<site, outdir>>
        ELSE LET signed == IF options.privateKey /= ""
                           THEN signManifest(generated, options.privateKey)
                           ELSE generated
             IN /\ manifest' = signed
                /\ outdir' = WriteFile(outdir, "manifest.json",
                                       stringToBuffer(JSONStringifyPretty(signed)))
                /\ site' = [site EXCEPT !.files = appFiles,
                                        !.manifestJson = JSONStringifyPretty(signed),
                                        !.canonical = canonicalizeManifest(generated)]
                /\ pc' = "ManifestWritten"
                /\ UNCHANGED failure
  /\ UNCHANGED <<options, anchor, configVars, resourcePaths, index, received,
                 resources, wire, document, console, requests, sigVerified,
                 pinCompared>>

\* Step 8 and the return: with an installer configured, the digest of the
\* canonical manifest is taken and buildInstaller bundles generator.js with
\* it (only that constant of the bundle is modelled) and writes index.html
\* from the template, or its Bun.build reports no success and it throws.
BuildInstaller ==
  /\ pc = "ManifestWritten"
  /\ IF options.installer
     THEN LET manifestHash == sha256hex(stringToBuffer(canonicalizeManifest(manifest)))
          IN /\ site' = [site EXCEPT !.manifestHash = manifestHash]
             /\ \E success \in BOOLEAN :
                  IF success
                  THEN /\ outdir' = WriteFile(
                                      WriteFile(outdir, "generator.js",
                                                stringToBuffer(JSONStringify(JString(manifestHash)))),
                                      "index.html", <<116>>)
                       /\ pc' = "BuildDone"
                       /\ UNCHANGED failure
                  ELSE /\ pc' = "BuildFailed"
                       /\ failure' = "Installer build failed"
                       /\ UNCHANGED outdir
     ELSE /\ pc' = "BuildDone"
          /\ UNCHANGED <<site, outdir, failure>>
  /\ UNCHANGED <<options, anchor, configVars, manifest, resourcePaths, index,
                 received, resources, wire, document, console, requests, sigVerified,
                 pinCompared>>

NextBuild ==
  \/ Bundle
  \/ CopyStatic
  \/ WriteBootstrap
  \/ WriteManifestJson
  \/ BuildInstaller

SpecBuild == InitBuild /\ [][NextBuild]_vars

(***************************************************************************)
(* Properties                                                              *)
(***************************************************************************)

\* C1: for every manifest the build produces (any version, timestamp and
\* resource map, signed or not, with or without urls), the loader's
\* canonicalizeManifest of the parsed manifest.json gives exactly the string
\* the build's canonicalizeManifest produced (and signed).
CanonicalFormsAgree ==
  pc = "Read" => bootstrapCanonicalizeManifest(manifest) = site.canonical

\* A signed manifest with urls on an entry and two resources listed out of
\* order has been written, read back and canonicalized to the signed text.
CanonicalFormsAgreeWitness ==
  /\ pc = "Read"
  /\ HasOwn(manifest, "signature")
  /\ Len(ObjectKeys(ObjGet(manifest, "resources"))) = 2
  /\ ObjectKeys(ObjGet(manifest, "resources"))
       /= SortStrings(ObjectKeys(ObjGet(manifest, "resources")))
  /\ Truthy(ObjGet(EntryOf(manifest, FirstPath(manifest)), "urls"))
  /\ bootstrapCanonicalizeManifest(manifest) = site.canonical

\* The states of a run from resource fetching on.
PastManifest == pc \in {"ResourcesFetching", "ResourcesVerifying", "Rendering", "Done"}

\* A manifest has been fetched and step 2 of main has run on it.
ManifestChecked ==
  /\ manifest.k /= "undefined"
  /\ pc \in {"LockedPinCheck", "ResourcesFetching", "ResourcesVerifying", "Rendering",
             "Done", "Failed"}

\* Only the manifest has been requested and nothing of the application is
\* in the document.
NothingFetchedOrRendered == Len(requests) = 1 /\ document = <<>>

\* C2: when a key is embedded, a run is in resource fetching or rendering
\* (or has requested a resource, or rendered) only if the signature over the
\* manifest's canonical form was verified against that key; with an unsigned
\* manifest, or without crypto.subtle, the run is Failed with nothing fetched
\* or rendered.
SignatureBeforeResources ==
  KeyEmbedded =>
    /\ (PastManifest \/ Len(requests) > 1 \/ document /= <<>>) =>
         /\ sigVerified
         /\ cryptoSubtle
         /\ verifySignature(EMBEDDED_PUBLIC_KEY, ObjGet(manifest, "signature").s,
                            bootstrapCanonicalizeManifest(manifest))
    /\ (ManifestChecked /\ (~cryptoSubtle \/ ~HasOwn(manifest, "signature"))) =>
         pc = "Failed" /\ NothingFetchedOrRendered

\* A key is embedded, the signature was verified and the application rendered.
SignatureBeforeResourcesWitness ==
  /\ KeyEmbedded
  /\ sigVerified
  /\ pc = "Done"
  /\ document /= <<>>

\* The fields a verifier may look at: version, timestamp, resources, signature.
SignedFields(m) ==
  JObject(SelectSeq(m.m, LAMBDA mem :
            mem.key \in {"version", "timestamp", "resources", "signature"}))

\* Manifests that agree with m on those fields and differ in others.
Twins(m) ==
  {SignedFields(m), WithPublicKey(SignedFields(m)),
   ObjDefine(SignedFields(m), "publicKey", JString(PublicKeyOf("K1"))),
   ObjDefine(SignedFields(m), "keyId", JString("K2"))}

\* C3: the verifier's key is the embedded constant: manifests that agree on
\* version, timestamp, resources and signature and differ in any other field
\* (a publicKey field, say) get the same outcome, and it is the outcome of
\* the run.
VerifierKeyIsEmbedded ==
  (KeyEmbedded /\ EMBEDDED_PUBLIC_KEY \in PublicKeys /\ cryptoSubtle
   /\ manifest.k = "object"
   /\ (pc = "LockedPinCheck" \/ (pc = "Failed" /\ Len(requests) = 1))) =>
    \A twin \in Twins(manifest) :
      /\ verifyManifest(twin, EMBEDDED_PUBLIC_KEY)
           = verifyManifest(manifest, EMBEDDED_PUBLIC_KEY)
      /\ sigVerified <=> (verifyManifest(twin, EMBEDDED_PUBLIC_KEY) = "ok")

\* A manifest signed by the attacker that names the attacker's key in a
\* publicKey field has been rejected.
VerifierKeyIsEmbeddedWitness ==
  /\ KeyEmbedded
  /\ cryptoSubtle
  /\ pc = "Failed"
  /\ manifest.k = "object"
  /\ ObjGet(manifest, "publicKey") = JString(PublicKeyOf(AttackerKey))
  /\ verifySignature(PublicKeyOf(AttackerKey), ObjGet(manifest, "signature").s,
                     bootstrapCanonicalizeManifest(manifest))
  /\ failure = "Manifest signature verification failed"

\* C4 (as claimed): for every manifest M and keypair (priv, pub), the result
\* of signManifest(M, priv), written to manifest.json and parsed again, is
\* accepted by the loader's verifyManifest with pub.
SignedManifestAccepted ==
  (pc = "Verified" /\ options.privateKey /= ""
   /\ EMBEDDED_PUBLIC_KEY = PublicKeyOf(options.privateKey)) => sigVerified

\* The manifest carries a signature made with a private key whose public
\* half is not the embedded key.
SignedByOther ==
  /\ manifest.k = "object"
  /\ ObjGet(manifest, "signature").k = "string"
  /\ \E priv \in PrivateKeys :
       /\ PublicKeyOf(priv) /= EMBEDDED_PUBLIC_KEY
       /\ Ed25519Verify(PublicKeyOf(priv), hexToBytes(ObjGet(manifest, "signature").s),
                        stringToBuffer(bootstrapCanonicalizeManifest(manifest)))

\* C5 (as claimed): a manifest signed with a private key whose public half
\* is not the embedded key ends the run in Failed with the signature
\* verification failure, and no listed resource is fetched or rendered.
WrongKeyIsSignatureInvalid ==
  (KeyEmbedded /\ ManifestChecked /\ SignedByOther) =>
    /\ pc = "Failed"
    /\ failure = "Manifest signature verification failed"
    /\ NothingFetchedOrRendered

\* C5 (amended): such a manifest always ends the run in Failed with no
\* listed resource fetched or rendered; the failure is the signature
\* verification failure exactly when the check is reached, that is when
\* crypto.subtle exists, the embedded key imports and the manifest passes
\* the structure test; otherwise it is the failure met before the check.
WrongKeyRejected ==
  (KeyEmbedded /\ ManifestChecked /\ SignedByOther) =>
    /\ pc = "Failed"
    /\ ~sigVerified
    /\ NothingFetchedOrRendered
    /\ failure = (IF ~cryptoSubtle THEN SecureContextError
                  ELSE IF EMBEDDED_PUBLIC_KEY \notin PublicKeys THEN ImportKeyError
                  ELSE IF ~Truthy(ObjGet(manifest, "version"))
                  THEN "Invalid manifest structure"
                  ELSE "Manifest signature verification failed")

\* A manifest signed by another key, with no publicKey field, has been
\* rejected by the signature check.
WrongKeyRejectedWitness ==
  /\ KeyEmbedded
  /\ cryptoSubtle
  /\ SignedByOther
  /\ ~HasOwn(manifest, "publicKey")
  /\ pc = "Failed"
  /\ failure = "Manifest signature verification failed"
  /\ NothingFetchedOrRendered

\* C6 (as claimed): when the resources of a signed manifest are altered after
\* signing (an entry's hash or size changed, an entry added, removed or
\* renamed), verification against the matching public key fails.
AlteredResourcesRejected ==
  (pc = "VerifiedAltered" /\ EMBEDDED_PUBLIC_KEY = PublicKeyOf(options.privateKey))
    => ~sigVerified

\* The digest the loader computes of the manifest's canonical form.
ManifestDigest == sha256(stringToBuffer(bootstrapCanonicalizeManifest(manifest)))

\* The hash the manifest records for a path, without its prefix.
RecordedHash(path) == StripSha256Prefix(ObjGet(EntryOf(manifest, path), "hash").s)

\* Step 2 of main has accepted the manifest.
PassedManifestVerifying ==
  /\ ManifestChecked
  /\ IF KeyEmbedded THEN sigVerified
     ELSE /\ manifest.k = "object"
          /\ Truthy(ObjGet(manifest, "resources"))
          /\ Truthy(ObjGet(manifest, "version"))

DeliveredBytesMatchRecorded ==
  \A i \in 1..Len(wire) : sha256(wire[i].bytes) = RecordedHash(wire[i].path)

\* C9: in locked mode with a pinned digest H, a manifest that passed step 2
\* and whose canonical-form digest differs from H ends the run with the pin
\* mismatch and nothing fetched, valid signature or not; one whose digest
\* equals H is accepted and the run goes on to fetch the resources.
PinnedDigestDecides ==
  (UPDATE_MODE = "locked" /\ MANIFEST_HASH /= "" /\ PassedManifestVerifying
   /\ pc /= "LockedPinCheck") =>
    /\ pinCompared
    /\ IF ManifestDigest = MANIFEST_HASH
       THEN /\ ~StartsWith(failure, "Locked mode: manifest hash mismatch")
            /\ resourcePaths = ObjectKeys(ObjGet(manifest, "resources"))
            /\ resourcePaths /= <<>> =>
                 (Len(requests) > 1
                  /\ requests[2] = ContentBaseUrl(BOOTSTRAP_URL) \o resourcePaths[1])
       ELSE /\ pc = "Failed"
            /\ failure = "Locked mode: manifest hash mismatch. Expected: "
                         \o MANIFEST_HASH \o ", got: " \o ManifestDigest
            /\ NothingFetchedOrRendered

\* A manifest with a valid signature and another digest than the pinned one
\* has been rejected with the pin mismatch.
PinnedDigestDecidesWitness ==
  /\ UPDATE_MODE = "locked"
  /\ MANIFEST_HASH /= ""
  /\ KeyEmbedded
  /\ sigVerified
  /\ ManifestDigest /= MANIFEST_HASH
  /\ pc = "Failed"
  /\ StartsWith(failure, "Locked mode: manifest hash mismatch")

\* C10 (as claimed): in every run whose update mode is locked, resource
\* fetching is entered only after the manifest's digest was compared with
\* the digest pinned in the trust anchor and found equal.
LockedComparesPin ==
  (UPDATE_MODE = "locked" /\ PastManifest) =>
    (pinCompared /\ ManifestDigest = MANIFEST_HASH)

\* The manifest carries a signature that is valid under the embedded key.
ValidlySigned ==
  /\ manifest.k = "object"
  /\ ObjGet(manifest, "signature").k = "string"
  /\ EMBEDDED_PUBLIC_KEY \in PublicKeys
  /\ Ed25519Verify(EMBEDDED_PUBLIC_KEY, hexToBytes(ObjGet(manifest, "signature").s),
                   stringToBuffer(bootstrapCanonicalizeManifest(manifest)))

\* C11 (as claimed): in auto mode the pin check is skipped and any manifest
\* with a valid signature is accepted, whatever its version and digest and
\* whatever data-hash the trust anchor carries (signature verification being
\* available).
AutoAcceptsValidSignature ==
  (UPDATE_MODE = "auto" /\ KeyEmbedded /\ cryptoSubtle /\ ManifestChecked
   /\ ValidlySigned) =>
    /\ sigVerified
    /\ ~pinCompared
    /\ ~(pc = "Failed" /\ Len(requests) = 1)

\* The paths the manifest in hand lists.
ListedPaths ==
  IF manifest.k = "object" /\ ObjGet(manifest, "resources").k = "object"
  THEN {ObjectKeys(ObjGet(manifest, "resources"))[i] :
          i \in 1..Len(ObjectKeys(ObjGet(manifest, "resources")))}
  ELSE {}

\* C12: every resource request of a run, every resource the loader keeps and
\* every element it inserts is for a path that is a key of the accepted
\* manifest's resources, and an inserted element holds the text kept for its
\* path; a file the host deploys or offers under an unlisted path is never
\* requested.
OnlyListedLoaded ==
  /\ \A i \in 2..Len(requests) :
       \E path \in ListedPaths : requests[i] = ContentBaseUrl(BOOTSTRAP_URL) \o path
  /\ \A i \in 1..Len(resources) : resources[i].path \in ListedPaths
  /\ \A i \in 1..Len(wire) : wire[i].path \in ListedPaths
  /\ \A n \in 1..Len(document) :
       /\ document[n].path \in ListedPaths
       /\ document[n].text = ResourceText(resources, document[n].path)

\* A run is done on a manifest that lists one path while the host deploys
\* another file too: the listed one was requested and inserted, the other
\* never requested.
OnlyListedLoadedWitness ==
  /\ pc = "Done"
  /\ document /= <<>>
  /\ Len(requests) = 2
  /\ \E i \in 1..Len(site.files) :
       /\ site.files[i].path \notin ListedPaths
       /\ \A r \in 1..Len(requests) :
            requests[r] /= ContentBaseUrl(BOOTSTRAP_URL) \o site.files[i].path

\* console.warn has reported that the manifest is not signature-verified.
Warned ==
  \E i \in 1..Len(console) :
    /\ console[i].level = "warn"
    /\ console[i].message
         = "markproof: No signing key embedded. Manifest is NOT signature-verified."

\* C13: when no public key is embedded, every run that is past step 2 of
\* main, has requested a resource or has rendered has emitted the warning;
\* the warning is in the console in the state from which the first resource
\* request is made.
UnauthenticatedRunsWarn ==
  (~KeyEmbedded /\ (pc \in {"LockedPinCheck", "ResourcesFetching", "ResourcesVerifying",
                            "Rendering", "Done"}
                    \/ Len(requests) > 1 \/ document /= <<>>))
    => Warned

\* A run without a key has passed step 2 with the warning emitted and has
\* requested no resource yet.
UnauthenticatedRunsWarnWitness ==
  /\ ~KeyEmbedded
  /\ pc = "LockedPinCheck"
  /\ ObjectKeys(ObjGet(manifest, "resources")) /= <<>>
  /\ Len(requests) = 1
  /\ Warned

\* The objects with the members of obj in every insertion order.
Permuted(obj) ==
  LET n == Len(obj.m)
  IN {JObject([i \in 1..n |-> obj.m[f[i]]]) :
        f \in {g \in [1..n -> 1..n] : \A i, j \in 1..n : g[i] = g[j] => i = j}}

\* The manifests with the version, timestamp and path -> {hash, size, ...}
\* mapping of m, built in another order: the top-level fields turned round,
\* the resource keys in any order, the fields of every entry turned round.
Reorderings(m) ==
  {ObjDefine(top, "resources",
     JObject([i \in 1..Len(res.m) |->
                Member(res.m[i].key,
                       IF flip THEN JObject(Reverse(res.m[i].val.m)) ELSE res.m[i].val)])) :
     top \in {m, JObject(Reverse(m.m))},
     res \in Permuted(ObjGet(m, "resources")),
     flip \in BOOLEAN}

\* C14: canonicalizeManifest called again on the manifest that was signed or
\* written returns the string of the first call, and every manifest with the
\* same version, timestamp and path -> {hash, size} mapping, whatever the
\* insertion order of its resource keys and fields, yields that string too.
CanonicalOrderIndependent ==
  pc = "Written" =>
    /\ canonicalizeManifest(manifest) = site.canonical
    /\ \A other \in Reorderings(manifest) : canonicalizeManifest(other) = site.canonical

\* A written manifest whose two resources were inserted in another order
\* than the sorted one.
CanonicalOrderIndependentWitness ==
  /\ pc = "Written"
  /\ Len(ObjectKeys(ObjGet(manifest, "resources"))) = 2
  /\ ObjectKeys(ObjGet(manifest, "resources"))
       /= SortStrings(ObjectKeys(ObjGet(manifest, "resources")))
  /\ \E other \in Reorderings(manifest) : other /= manifest

\* C15: the canonical form of a manifest is that of the manifest without its
\* signature and without its entries' urls; a different signature, added
\* urls or a publicKey field leave it unchanged; parsed, it has the members
\* version, timestamp and resources only, and every entry hash and size only.
CanonicalOnlySignedContent ==
  pc \in {"Signed", "Written"} =>
    LET canonical == canonicalizeManifest(manifest)
        parsed == JSONParse(canonical)
    IN /\ canonical
            = canonicalizeManifest(generateManifest(options.files, options.version,
                                                    options.now))
       /\ canonicalizeManifest(WithUrls(manifest)) = canonical
       /\ canonicalizeManifest(ObjDefine(manifest, "signature", JString("00"))) = canonical
       /\ canonicalizeManifest(WithPublicKey(manifest)) = canonical
       /\ parsed.ok
       /\ ObjectKeys(parsed.val) = <<"version", "timestamp", "resources">>
       /\ \A i \in 1..Len(ObjGet(parsed.val, "resources").m) :
            ObjectKeys(ObjGet(parsed.val, "resources").m[i].val) = <<"hash", "size">>

\* A signed manifest with mirror urls on an entry.
CanonicalOnlySignedContentWitness ==
  /\ pc = "Signed"
  /\ HasOwn(manifest, "signature")
  /\ ObjGet(manifest, "resources").m /= <<>>
  /\ HasOwn(EntryOf(manifest, FirstPath(manifest)), "urls")

NoRetriesEachUrlOnce ==
  [][/\ pc /= "Failed"
     /\ \A i, j \in 1..Len(requests') : requests'[i] = requests'[j] => i = j
    ]_vars

\* C17 (amended): no step is taken from Failed; a step sends at most one
\* request; no listed resource is requested twice, and the URL of the
\* manifest is requested a second time only as the resource '/manifest.json'
\* that the accepted manifest lists.
NoRetries ==
  [][/\ pc /= "Failed"
     /\ Len(requests') <= Len(requests) + 1
     /\ \A i, j \in 2..Len(requests') : requests'[i] = requests'[j] => i = j
     /\ \A i \in 2..Len(requests') :
          requests'[i] = requests'[1] => "/manifest.json" \in ListedPaths'
    ]_vars

\* The request for the first of two listed resources failed: the run is
\* Failed and the second resource was never requested.
NoRetriesWitness ==
  /\ pc = "Failed"
  /\ failure = "Failed to fetch"
  /\ Len(resourcePaths) = 2
  /\ index = 1
  /\ Len(requests) = 2
  /\ wire = <<>>

\* C18 (as claimed): every run of the loader eventually reaches Done or
\* Failed; it never stays in a fetching state forever.
EveryRunEnds == (pc = "Init") ~> (pc \in {"Done", "Failed"})

\* C19: when the request for the manifest fails or is answered with a status
\* that is not ok, the run is Failed with that failure and no manifest; the
\* signature was not verified, no warning, pin comparison, resource request
\* or rendering took place. A run that went past the manifest request
\* without obtaining a manifest is such a failed run.
ManifestUnreachableFails ==
  /\ (failure \in {"Failed to fetch", "Manifest fetch failed: 404"} /\ index = 0) =>
       /\ pc = "Failed"
       /\ manifest = JUndefined
       /\ ~sigVerified
       /\ ~pinCompared
       /\ ~Warned
       /\ NothingFetchedOrRendered
       /\ wire = <<>>
       /\ resources = <<>>
  /\ (manifest = JUndefined /\ requests /= <<>> /\ pc /= "ManifestFetching") =>
       /\ pc = "Failed"
       /\ failure \in {"Failed to fetch", "Manifest fetch failed: 404",
                       "Unexpected token in JSON"}
       /\ NothingFetchedOrRendered

\* The host answers the manifest request with 404 in a build with a key.
ManifestUnreachableFailsWitness ==
  /\ pc = "Failed"
  /\ failure = "Manifest fetch failed: 404"
  /\ KeyEmbedded
  /\ manifest = JUndefined
  /\ Len(requests) = 1

\* C20 (as claimed): a fetched manifest without version, timestamp or
\* resources, or without signature when a key is embedded, is rejected as
\* malformed ('Invalid manifest structure') with no resource requested and
\* nothing rendered (the signature check being within reach: crypto.subtle
\* available and the embedded key importable).
MalformedRejected ==
  (/\ ManifestChecked
   /\ manifest.k = "object"
   /\ KeyEmbedded => (cryptoSubtle /\ EMBEDDED_PUBLIC_KEY \in PublicKeys)
   /\ \/ \E field \in {"version", "timestamp", "resources"} : ~HasOwn(manifest, field)
      \/ KeyEmbedded /\ ~HasOwn(manifest, "signature"))
    => /\ pc = "Failed"
       /\ failure = "Invalid manifest structure"
       /\ NothingFetchedOrRendered

\* The mirror urls the manifest lists for a path.
UrlsOf(path) ==
  LET urls == ObjGet(EntryOf(manifest, path), "urls")
  IN IF urls.k = "array" THEN {urls.m[i].val.s : i \in 1..Len(urls.m)} ELSE {}

\* C21 (as claimed): a run fails on a missing resource only after the
\* resource's base location and every entry of its urls have been requested.
MissingAfterAllLocations ==
  (pc = "Failed" /\ index >= 1 /\ index <= Len(resourcePaths)
   /\ failure \in {"Failed to fetch",
                   "Resource fetch failed: 404 " \o resourcePaths[index]}) =>
    /\ \E r \in 2..Len(requests) :
         requests[r] = ContentBaseUrl(BOOTSTRAP_URL) \o resourcePaths[index]
    /\ \A url \in UrlsOf(resourcePaths[index]) :
         \E r \in 2..Len(requests) : requests[r] = url

\* C22 (as claimed): every resource the loader accepted was delivered as
\* bytes whose length is the size its manifest entry records.
AcceptedSizeMatches ==
  \A i \in 1..Len(wire) :
    ObjGet(EntryOf(manifest, wire[i].path), "size")
      = JNumber(Len(wire[i].bytes))

\* C23: once buildApp has written bootstrap.js, the digest it reports (the
\* one trust anchors pin) is the base64 SHA-256 of exactly the bytes of
\* bootstrap.js in the output directory, and when a public key is configured
\* or derived those bytes hold the key: the digest is taken after the
\* substitution.
BootstrapDigestCoversWritten ==
  pc \in {"BootstrapWritten", "ManifestWritten", "BuildDone"} =>
    /\ HasFile(outdir, "bootstrap.js")
    /\ site.bootstrapHashBase64 = "b64" \o sha256hex(FileContent(outdir, "bootstrap.js"))
    /\ LET written == FileContent(outdir, "bootstrap.js")
           key == stringToBuffer(DerivePublicKey(options))
       IN key /= <<>> =>
            \E i \in 1..Len(written) : SubSeq(written, i, i + Len(key) - 1) = key

\* A finished build with a key derived from the private key: the digest
\* reported is not that of the runtime file as shipped.
BootstrapDigestCoversWrittenWitness ==
  /\ pc = "BuildDone"
  /\ options.privateKey = "K1"
  /\ options.publicKey = ""
  /\ HasFile(outdir, "bootstrap.js")
  /\ site.bootstrapHashBase64 /= "b64" \o sha256hex(stringToBuffer(BootstrapSource))

\* C24 (as claimed, for builds without an installer page): after a
\* successful build the keys of manifest.resources are exactly '/' + name
\* for the files of the output directory other than bootstrap.js and
\* manifest.json, and each entry records the SHA-256 and the byte length of
\* that file.
ManifestListsOutputs ==
  (pc = "BuildDone" /\ ~options.installer) =>
    LET listed == ObjGet(manifest, "resources")
        outputs == {i \in 1..Len(outdir) :
                      outdir[i].name \notin {"bootstrap.js", "manifest.json"}}
    IN /\ {ObjectKeys(listed)[k] : k \in 1..Len(ObjectKeys(listed))}
            = {"/" \o outdir[i].name : i \in outputs}
       /\ \A i \in outputs :
            /\ ObjGet(EntryOf(manifest, "/" \o outdir[i].name), "hash")
                 = JString("sha256-" \o sha256hex(outdir[i].content))
            /\ ObjGet(EntryOf(manifest, "/" \o outdir[i].name), "size")
                 = JNumber(Len(outdir[i].content))

\* C25 (as claimed): when a step of buildApp has failed, the output
\* directory holds nothing of that build: it is as it was before the build
\* began.
FailedBuildLeavesNothing ==
  pc = "BuildFailed" => outdir = options.before

\* C26 (as claimed): for a build whose key options agree, the digest the
\* build hands to the installer equals the digest the loader computes over
\* its canonical form of the manifest.json of that build, and a run in
\* locked mode pinned to that digest that is served that manifest.json does
\* not reject it (signature verification being available).
LockedAnchorAcceptsOwnManifest ==
  (UPDATE_MODE = "locked" /\ MANIFEST_HASH = site.manifestHash /\ cryptoSubtle
   /\ (options.publicKey = ""
       \/ (options.privateKey /= "" /\ options.publicKey = PublicKeyOf(options.privateKey)))
   /\ ManifestChecked /\ pc /= "LockedPinCheck"
   /\ manifest = JSONParse(site.manifestJson).val) =>
    /\ ManifestDigest = site.manifestHash
    /\ ~(pc = "Failed" /\ Len(requests) = 1)

\* C27 (as claimed): for every Map of files and every version,
\* generateManifest returns a manifest with that version and no signature
\* whose resource keys are exactly the paths of the Map, each entry with
\* hash 'sha256-' + the hex SHA-256 of the file's content and size its byte
\* length.
GeneratedManifestListsMap ==
  pc = "Generated" =>
    LET listed == ObjectKeys(ObjGet(manifest, "resources"))
    IN /\ ObjGet(manifest, "version") = JString(options.version)
       /\ ~HasOwn(manifest, "signature")
       /\ {listed[k] : k \in 1..Len(listed)}
            = {options.files[i].path : i \in 1..Len(options.files)}
       /\ \A i \in 1..Len(options.files) :
            EntryOf(manifest, options.files[i].path)
              = JObject(<<Member("hash", JString("sha256-"
                                    \o sha256hex(options.files[i].content))),
                          Member("size", JNumber(Len(options.files[i].content)))>>)

\* C28: signManifest called with a private key that is no PEM key fails with
\* the error crypto.sign throws for the key and returns no manifest: no
\* manifest carrying a signature ever comes of that key, and nothing is
\* written or read after the call.
MalformedKeyNeverSigns ==
  (options.privateKey /= "" /\ options.privateKey \notin PrivateKeys) =>
    /\ pc \in {"Author", "Generated", "Annotated", "SignFailed"}
    /\ manifest.k = "object" => ~HasOwn(manifest, "signature")
    /\ pc = "SignFailed" => failure = "crypto.sign threw"

\* signManifest has been called with the malformed key on a manifest with
\* resources and has failed.
MalformedKeyNeverSignsWitness ==
  /\ pc = "SignFailed"
  /\ options.privateKey = "not-a-pem"
  /\ failure = "crypto.sign threw"
  /\ ObjGet(manifest, "resources").m /= <<>>
  /\ ~HasOwn(manifest, "signature")

ModeRoundTrips ==
  anchor /= <<>> =>
    \A mode \in {"", "auto", "locked"}, pin \in {"", site.manifestHash} :
      anchor = generateBookmarklet(
                 [bootstrapUrl |-> BootstrapUrl,
                  bootstrapHashBase64 |-> site.bootstrapHashBase64,
                  updateMode |-> mode, manifestHash |-> pin]) =>
        /\ (\E i \in 1..Len(anchor) : anchor[i].name = "data-mode") <=> mode = "locked"
        /\ \A i \in 1..Len(anchor) : anchor[i].name = "data-mode" => anchor[i].value = "locked"
        /\ pc /= "Installed" => UPDATE_MODE = (IF mode = "" THEN "auto" ELSE mode)

\* A loader that read locked from an anchor with data-mode, its run begun.
ModeRoundTripsWitness ==
  /\ pc = "ManifestFetching"
  /\ UPDATE_MODE = "locked"
  /\ \E i \in 1..Len(anchor) : anchor[i] = Attr("data-mode", "locked")

\* C31: the trust anchor generateBookmarklet returned is determined by
\* bootstrapUrl, bootstrapHashBase64, updateMode and manifestHash alone: it
\* is the script element those four values give, the same for an omitted
\* mode as for auto, with nothing of the clock, of chance or of the build's
\* private key in any attribute.
AnchorFromInputsOnly ==
  [][anchor' /= anchor =>
       /\ \E mode \in {"auto", "locked"}, pin \in PinOffers(site, options) :
            anchor' = buildBookmarkletHtml(
                        [bootstrapUrl |-> BootstrapUrl,
                         bootstrapHashBase64 |-> site.bootstrapHashBase64,
                         updateMode |-> mode, manifestHash |-> pin])
       /\ \A i \in 1..Len(anchor') :
            /\ anchor'[i].name \in {"src", "integrity", "crossorigin", "data-mode",
                                    "data-hash", "onerror"}
            /\ options.privateKey /= "" =>
                 \A j \in 1..(Len(anchor'[i].value) - Len(options.privateKey) + 1) :
                    SubSeq(anchor'[i].value, j, j + Len(options.privateKey) - 1)
                      /= options.privateKey
    ]_vars

\* A locked anchor with a pinned digest, generated for a build that signs.
AnchorFromInputsOnlyWitness ==
  /\ pc = "Installed"
  /\ options.privateKey /= ""
  /\ \E i \in 1..Len(anchor) : anchor[i] = Attr("data-mode", "locked")
  /\ \E i \in 1..Len(anchor) : anchor[i] = Attr("data-hash", site.manifestHash)

ManifestAndContentUsedAsVerified ==
  [][/\ manifest' /= manifest => (pc = "ManifestFetching" /\ Len(requests) = 1)
     /\ (Len(requests') > Len(requests) /\ Len(requests) >= 1) =>
          /\ pc' = "ResourcesFetching"
          /\ requests' = Append(requests, ContentBaseUrl(BOOTSTRAP_URL)
                                          \o resourcePaths'[index'])
     /\ resources' /= resources =>
          /\ pc = "ResourcesVerifying"
          /\ resources' = Append(resources, [path |-> resourcePaths[index],
                                             content |-> ResponseText(received)])
          /\ sha256(TextEncode(ResponseText(received))) = RecordedHash(resourcePaths[index])
     /\ document' /= document =>
          \A n \in 1..Len(document') :
            \E i \in 1..Len(resources) :
              /\ resources[i].path = document'[n].path
              /\ resources[i].content = document'[n].text
              /\ wire[i].path = resources[i].path
              /\ ResponseText(wire[i].bytes) = resources[i].content
    ]_vars

\* A signed, locked run with a pinned digest has rendered two resources from
\* three requests in all.
ManifestAndContentUsedAsVerifiedWitness ==
  /\ pc = "Done"
  /\ sigVerified
  /\ pinCompared
  /\ Len(requests) = 3
  /\ Len(resources) = 2
  /\ Len(document) >= 1

\* C39: the listed resources are handled one at a time in the order of
\* Object.keys(manifest.resources): the k-th resource request is for the
\* k-th key and is sent only when the k-1 resources before it have all been
\* verified; a resource is recorded only in the step that found its own hash
\* matching; a step that fails sends no request, and no step follows it.
OneResourceAtATime ==
  [][/\ (Len(requests') > Len(requests) /\ Len(requests) >= 1) =>
          LET k == Len(requests)
              keys == ObjectKeys(ObjGet(manifest, "resources"))
          IN /\ requests' = Append(requests, ContentBaseUrl(BOOTSTRAP_URL) \o keys[k])
             /\ index' = k
             /\ Len(wire') = k - 1
             /\ \A i \in 1..(k - 1) : wire'[i].path = keys[i]
     /\ wire' /= wire =>
          /\ pc = "ResourcesVerifying"
          /\ wire' = Append(wire, [path |-> resourcePaths[index], bytes |-> received])
          /\ verifyResource(ResponseText(received),
                            ObjGet(EntryOf(manifest, resourcePaths[index]), "hash").s)
     /\ pc' = "Failed" => (requests' = requests /\ wire' = wire /\ resources' = resources)
     /\ pc /= "Failed"
    ]_vars

\* The first of two resources was verified; the second arrived with a hash
\* that does not match, and the run failed with no further request.
OneResourceAtATimeWitness ==
  /\ pc = "Failed"
  /\ StartsWith(failure, "Resource hash mismatch")
  /\ Len(resourcePaths) = 2
  /\ index = 2
  /\ Len(wire) = 1
  /\ Len(requests) = 3

\* C37: signing adds the signature and nothing else: the signed manifest has
\* the members of the manifest handed to signManifest, in their order and
\* with their values, followed by signature; its canonical form is the
\* canonical form of the unsigned manifest, which is the text that was
\* signed; signing the signed manifest again with the same key gives the
\* signed manifest back, and with another key the signature that key gives
\* the unsigned manifest.
SigningAddsOnlySignature ==
  [][pc' = "Signed" =>
       /\ ObjectKeys(manifest') = Append(ObjectKeys(manifest), "signature")
       /\ \A i \in 1..Len(manifest.m) : manifest'.m[i] = manifest.m[i]
       /\ ObjGet(manifest', "signature").k = "string"
       /\ canonicalizeManifest(manifest') = canonicalizeManifest(manifest)
       /\ site'.canonical = canonicalizeManifest(manifest')
       /\ signManifest(manifest', options.privateKey) = manifest'
       /\ \A key \in PrivateKeys \ {options.privateKey} :
            ObjGet(signManifest(manifest', key), "signature")
              = ObjGet(signManifest(manifest, key), "signature")
    ]_vars

\* A manifest with two resources and mirror urls has been signed.
SigningAddsOnlySignatureWitness ==
  /\ pc = "Signed"
  /\ Len(ObjectKeys(ObjGet(manifest, "resources"))) = 2
  /\ \E path \in {ObjectKeys(ObjGet(manifest, "resources"))[i] : i \in 1..2} :
       HasOwn(EntryOf(manifest, path), "urls")
  /\ HasOwn(manifest, "signature")

\* C34: whatever keys a build is configured with, once it has written
\* manifest.json the bootstrap.js it wrote accepts that manifest in step 2 of
\* main: a key is embedded exactly when the manifest carries a signature, the
\* embedded key is the public half of the private key that signed, and the
\* signature check (or, with no key, the structure test) passes. Builds with
\* the empty version, which the loader refuses for that reason alone, are
\* left aside.
BuildAcceptsOwnManifest ==
  (pc \in {"ManifestWritten", "BuildDone"} /\ options.version /= "") =>
    LET written == JSONParse(site.manifestJson).val
        embedded == site.bootstrapKey
        signed == HasOwn(written, "signature")
    IN /\ (embedded /= PublicKeyPlaceholder) <=> signed
       /\ signed => embedded = PublicKeyOf(options.privateKey)
       /\ IF embedded /= PublicKeyPlaceholder
          THEN /\ embedded \in PublicKeys
               /\ verifyManifest(written, embedded) = "ok"
          ELSE /\ Truthy(ObjGet(written, "resources"))
               /\ Truthy(ObjGet(written, "version"))

(***************************************************************************)
(* Resource verification over arbitrary file bytes                         *)
(***************************************************************************)

\* The loader in a build without a key, at the first resource request of
\* step 4: the build deployed a.js with bytes that are text, a byte order
\* mark before text, or no valid UTF-8, beside b.css; the manifest it
\* fetched is the build's, or that manifest with the hash of /a.js written
\* without its prefix or under the name of another algorithm.
InitDigest ==
  /\ options \in {[files |-> <<[name |-> "a.js", content |-> c],
                              [name |-> "b.css", content |-> <<98>>]>>,
                   version |-> "1", now |-> "t0", privateKey |-> "",
                   publicKey |-> ""] :
                    c \in {<<97>>, <<195, 169>>, <<239, 187, 191, 97>>, <<255>>,
                           <<97, 128>>, <<237, 160, 128>>}}
  /\ site = buildApp(options)
  /\ outdir = OutDirOf(options)
  /\ anchor = generateBookmarklet(
                [bootstrapUrl |-> BootstrapUrl,
                 bootstrapHashBase64 |-> site.bootstrapHashBase64,
                 updateMode |-> "auto", manifestHash |-> ""])
  /\ EMBEDDED_PUBLIC_KEY = site.bootstrapKey
  /\ UPDATE_MODE = GetAttributeOr(anchor, "data-mode", "auto")
  /\ MANIFEST_HASH = GetAttributeOr(anchor, "data-hash", "")
  /\ cryptoSubtle = TRUE
  /\ LET built == JSONParse(site.manifestJson).val
         hex == StripSha256Prefix(ObjGet(EntryOf(built, "/a.js"), "hash").s)
     IN manifest \in {built,
                      SetEntryField(built, "/a.js", "hash", JString(hex)),
                      SetEntryField(built, "/a.js", "hash", JString("sha512-" \o hex))}
  /\ resourcePaths = ObjectKeys(ObjGet(manifest, "resources"))
  /\ index = 1
  /\ pc = "ResourcesFetching"
  /\ requests = <<ContentBaseUrl(BOOTSTRAP_URL) \o "/manifest.json",
                  ContentBaseUrl(BOOTSTRAP_URL) \o resourcePaths[1]>>
  /\ console = <<NoKeyWarning>>
  /\ received = <<>>
  /\ resources = <<>>
  /\ wire = <<>>
  /\ failure = ""
  /\ document = <<>>
  /\ sigVerified = FALSE
  /\ pinCompared = FALSE

NextDigest ==
  \/ ResourceResponse
  \/ VerifyResource
  \/ InjectApp

SpecDigest == InitDigest /\ [][NextDigest]_vars

\* C35: for a file the build deployed and the host delivers byte for byte,
\* under the build's own manifest, the digest the loader computes (of the
\* re-encoded text of the response) is the digest the build recorded (of the
\* file's bytes), whatever the bytes are, and the run does not fail with a
\* hash mismatch on it.
UntamperedDigestMatches ==
  (/\ pc \in {"ResourcesVerifying", "Failed"}
   /\ manifest = JSONParse(site.manifestJson).val
   /\ received = DeployedContent(site, resourcePaths[index])) =>
     /\ pc = "ResourcesVerifying" =>
          sha256(TextEncode(ResponseText(received))) = sha256hex(received)
     /\ pc = "Failed" => ~StartsWith(failure, "Resource hash mismatch")

\* C38: a resource is accepted only under a hash that names its algorithm:
\* every verified resource has a manifest hash that begins with sha256-.
AcceptedOnlyUnderDeclaredAlgorithm ==
  \A i \in 1..Len(wire) :
    StartsWith(ObjGet(EntryOf(manifest, wire[i].path), "hash").s, "sha256-")

(***************************************************************************)
(* sha256 and its fallback sha256js over messages of any length            *)
(***************************************************************************)

\* The 64-byte blocks of a padded message run through the compression
\* function, as an ideal hash: the 32 bytes stand for the padded message
\* (its data, a byte unit repeated times times, the number of zero bytes
\* after the 0x80 byte, and the eight length bytes) and no two padded
\* messages share them.
Sha256Blocks(data, padLen, lengthBytes) ==
  <<IF data.times = 0 THEN 0 ELSE data.unit,
    (data.times \div 16777216) % 256, (data.times \div 65536) % 256,
    (data.times \div 256) % 256, data.times % 256, padLen>> \o lengthBytes

\* sha256js(data): bitLen = bytes.length * 8; the message is followed by
\* 0x80, padLen zero bytes and eight length bytes, of which setUint32 writes
\* the last four, bitLen modulo 2^32, into a zero-filled array.
sha256js(data) ==
  LET length == data.times
      padLen == IF 64 - ((length + 9) % 64) = 64 THEN 0 ELSE 64 - ((length + 9) % 64)
      bitLen32 == <<(length \div 2097152) % 256, (length \div 8192) % 256,
                    (length \div 32) % 256, (length % 32) * 8>>
  IN bytesToHex(Sha256Blocks(data, padLen, <<0, 0, 0, 0>> \o bitLen32))

\* crypto.subtle.digest('SHA-256', buffer) as hex: SHA-256 as FIPS 180-4
\* defines it, the message followed by 0x80, the least number of zero bytes
\* that brings the length to 56 modulo 64, and the bit length in 64 bits.
SubtleDigest(data) ==
  LET length == data.times
      k == CHOOSE z \in 0..63 : (length + 1 + z) % 64 = 56
      bitLen64 == <<0, 0, 0, (length \div 536870912) % 256,
                    (length \div 2097152) % 256, (length \div 8192) % 256,
                    (length \div 32) % 256, (length % 32) * 8>>
  IN bytesToHex(Sha256Blocks(data, k, bitLen64))

\* Message lengths in bytes: around the padding boundaries of one and two
\* blocks, and around 2^29 bytes, where the bit length reaches 2^32.
MessageLengths ==
  {0, 1, 54, 55, 56, 57, 63, 64, 65, 119, 120, 128,
   536870911, 536870912, 536870913, 1073741824}

\* A call sha256(data) on a page with or without crypto.subtle; data is the
\* byte unit repeated times times.
InitSha ==
  /\ options \in {[data |-> [unit |-> u, times |-> n]] :
                    u \in {0, 97}, n \in MessageLengths}
  /\ cryptoSubtle \in BOOLEAN
  /\ pc = "Sha256Called"
  /\ site = buildApp(NoOptions)
  /\ outdir = <<>>
  /\ anchor = <<>>
  /\ EMBEDDED_PUBLIC_KEY = PublicKeyPlaceholder
  /\ UPDATE_MODE = "auto"
  /\ MANIFEST_HASH = ""
  /\ manifest = JUndefined
  /\ resourcePaths = <<>>
  /\ index = 0
  /\ received = ""
  /\ resources = <<>>
  /\ wire = <<>>
  /\ failure = ""
  /\ document = <<>>
  /\ console = <<>>
  /\ requests = <<>>
  /\ sigVerified = FALSE
  /\ pinCompared = FALSE

\* sha256(data): the promise resolves with the hex digest, from
\* crypto.subtle when the page has it, from sha256js otherwise.
Sha256 ==
  /\ pc = "Sha256Called"
  /\ received' = IF cryptoSubtle THEN SubtleDigest(options.data)
                 ELSE sha256js(options.data)
  /\ pc' = "Sha256Resolved"
  /\ UNCHANGED <<buildVars, anchor, configVars, manifest, resourcePaths, index,
                 resources, wire, failure, document, console, requests,
                 sigVerified, pinCompared>>

SpecSha == InitSha /\ [][Sha256]_vars

\* C32: whichever path sha256 takes, it resolves with the lowercase hex
\* digest that SHA-256 assigns to the message, for messages of every length.
FallbackDigestIsReference ==
  pc = "Sha256Resolved" =>
    /\ received = SubtleDigest(options.data)
    /\ sha256js(options.data) = SubtleDigest(options.data)

=============================================================================
